---- MODULE Spec2Model ----
(***************************************************************************)
(* State-machine model of the inngest-cleanup scripts: the relational      *)
(* tables they prune (events, function_runs, function_finishes, history,   *)
(* event_batches, trace_runs, traces), the Redis liveness keys, and the    *)
(* orchestrator loops of                                                   *)
(*   v3/cleanup_inngest_env_with_redis.py  (RedisAwareInngestCleaner)      *)
(*   v2/cleanup_inngest_env.py             (ImprovedInngestCleaner)        *)
(*   cleanupv2-sqlite.py                   (cleanup_* functions and main)  *)
(*   cleanupv2.py                          (the same, on PostgreSQL)       *)
(*   cleanup_events_v1.py                  (EventCleaner)                  *)
(*   cleanup_events.py                     (EventCleaner, first version)   *)
(* Every SQL statement is modelled by the rows it selects or deletes; a    *)
(* LIMIT without ORDER BY is a nondeterministic choice of rows.            *)
(***************************************************************************)
EXTENDS Integers, Sequences, FiniteSets, TLC

VARIABLES
    prog,               \* which script runs: "v3", "v2", "sqlite", "pg", "ec", "ec0"
    db_type,            \* self.db_type: "postgresql" or "sqlite"
    batch_size,         \* self.batch_size / BATCH_SIZE
    dry_run,            \* self.dry_run
    events,             \* table events: internal_id -> received_at
    function_runs,      \* table function_runs: run_id -> row
    function_finishes,  \* table function_finishes: run_id -> created_at
    history,            \* table history: rows [id, run_id, event_id, created_at]
    event_batches,      \* table event_batches: rows [id, event_ids, created_at]
    trace_runs,         \* table trace_runs: run_id -> ended_at
    traces,             \* table traces: rows [id, run_id]
    redis,              \* the Redis keys the cleaner reads and deletes
    pc,                 \* position of the orchestrator
    needs_more,         \* needs_more (run_cleanup) / tasks_state (main)
    ec,                 \* EventCleaner lane-loop locals
    last,               \* what the latest cycle selected and removed
    hist,               \* per-lane cycle counts since the run started
    env,                \* what the environment may do: failing statements, a concurrent cleaner,
                        \* an outage, a DELETE on function_runs that the server refuses
    inv,                \* which invocation of the script runs, and what the previous one counted
    retry,              \* EventCleaner.db_retry: the generator, its caller and db_is_healthy
    main                \* main() of cleanup_events_v1.py: its options, its loop, should_exit

vars == <<prog, db_type, batch_size, dry_run, events, function_runs,
          function_finishes, history, event_batches, trace_runs, traces,
          redis, pc, needs_more, ec, last, hist, env, inv, retry, main>>

db == <<events, function_runs, function_finishes, history, event_batches,
        trace_runs, traces>>

config == <<prog, db_type, batch_size, dry_run>>

-----------------------------------------------------------------------------
(* Bounds of the model *)

MaxRuns == 2
MaxEvents == 2
MaxBatch == 2
MaxTraceRuns == 3
MaxRowsPerRun == 2
MaxFailingCycles == 1
MaxRetries == 3
MaxOps == 2
MaxIterations == 2
MaxCycles == 4

(* Program configuration and clock.  With retention_days = 1 and the
   multiplier 2, the timestamps 1, 2, 3 are: older than the extended cutoff,
   between the two cutoffs, and within retention. *)

Now == 4

retention_days == 1
double_retention_multiplier == 2
NULL == 0

RunIds == 1..MaxRuns
EventIds == 1..MaxEvents
Times == 1..(Now - 1)
BatchSizes == 1..MaxBatch

cutoff_date == Now - retention_days
double_cutoff_date == Now - retention_days * double_retention_multiplier

-----------------------------------------------------------------------------
(* SQL helpers *)

\* ORDER BY <id> LIMIT n over a set of integer ids: the n smallest.
OrderByIdLimit(S, n) == {x \in S : Cardinality({y \in S : y < x}) < n}

\* LIMIT n with no ORDER BY: any n rows (all of them when there are fewer).
LimitChoices(S, n) ==
    {T \in SUBSET S : Cardinality(T) = IF Cardinality(S) < n THEN Cardinality(S) ELSE n}

\* ORDER BY <timestamp> LIMIT n over the rows S, t[x] being the timestamp of
\* x: any n rows such that no row left out is older than a row taken.
OrderByTimeLimitChoices(S, t, n) ==
    {T \in LimitChoices(S, n) : \A x \in T, y \in S \ T : t[x] <= t[y]}

\* DELETE FROM t WHERE key IN ids, for a table held as a function.
DeleteKeys(t, ids) == [k \in (DOMAIN t) \ ids |-> t[k]]

Runs == DOMAIN function_runs
Finishes == DOMAIN function_finishes
Events == DOMAIN events

-----------------------------------------------------------------------------
(* Redis *)

\* _decode_from_bytea: the text form of a bytea run id, as used in Redis keys.
DecodeFromBytea(run_id_bytes) == <<"str", run_id_bytes>>

StrIds == {DecodeFromBytea(r) : r \in RunIds}

RedisCalls == {"exists_pr", "scan_metadata", "scan_stack", "smembers", "exists_pause"}
NoFail == "none"

PauseIds == {1}

\* {prefix}:pr:<run_id> exists
PauseRunKeyExists(s) == redis.pr[s] # {}
\* {prefix:*}:metadata:<run_id> matches some key
MetadataKeyExists(s) == s \in redis.metadata
\* {prefix:*}:stack:<run_id> matches some key
StackKeyExists(s) == s \in redis.stack

\* A liveness key of the run: pause-run, metadata or stack key.
HasLivenessKey(r) ==
    LET s == DecodeFromBytea(r) IN
    PauseRunKeyExists(s) \/ MetadataKeyExists(s) \/ StackKeyExists(s)

\* Variant of check_run_active_in_redis that looks at the pause-run key only.
check_run_active_pr_only(s, fail) ==
    IF fail = "exists_pr" THEN TRUE ELSE PauseRunKeyExists(s)

\* Variant of check_run_active_in_redis whose except branch answers False.
check_run_active_fail_open(s, fail) ==
    IF fail = "exists_pr" THEN FALSE
    ELSE IF PauseRunKeyExists(s) THEN TRUE
    ELSE IF fail = "scan_metadata" THEN FALSE
    ELSE IF MetadataKeyExists(s) THEN TRUE
    ELSE IF fail = "scan_stack" THEN FALSE
    ELSE StackKeyExists(s)

\* check_run_active_in_redis; fail names the Redis call that raises (if reached).
check_run_active_in_redis(s, fail) ==
    IF fail = "exists_pr" THEN TRUE
    ELSE IF PauseRunKeyExists(s) THEN TRUE
    ELSE IF fail = "scan_metadata" THEN TRUE
    ELSE IF MetadataKeyExists(s) THEN TRUE
    ELSE IF fail = "scan_stack" THEN TRUE
    ELSE IF StackKeyExists(s) THEN TRUE
    ELSE FALSE

\* check_run_has_active_pauses
check_run_has_active_pauses(s, fail) ==
    IF fail = "smembers" THEN TRUE
    ELSE IF redis.pr[s] # {}
         THEN IF fail = "exists_pause" THEN TRUE
              ELSE \E p \in redis.pr[s] : p \in redis.pauses
         ELSE FALSE

\* Whether the failing call is reached, i.e. a Redis error is raised for s.
RedisCheckRaises(s, fail) ==
    CASE fail = "exists_pr" -> TRUE
      [] fail = "scan_metadata" -> ~PauseRunKeyExists(s)
      [] fail = "scan_stack" -> ~PauseRunKeyExists(s) /\ ~MetadataKeyExists(s)
      [] fail = "smembers" -> ~check_run_active_in_redis(s, NoFail)
      [] fail = "exists_pause" -> ~check_run_active_in_redis(s, NoFail) /\ redis.pr[s] # {}
      [] OTHER -> FALSE

\* The test of filter_safe_to_delete_incomplete_runs: skip the run when true.
RunSkipped(r, fail) ==
    LET s == DecodeFromBytea(r) IN
    check_run_active_in_redis(s, fail) \/ check_run_has_active_pauses(s, fail)

\* filter_safe_to_delete_incomplete_runs; fails[r] is the failing call for r.
filter_safe_to_delete_incomplete_runs(run_ids, fails) ==
    {r \in run_ids : ~RunSkipped(r, fails[r])}

-----------------------------------------------------------------------------
(* Selection of run ids: get_function_runs_to_delete *)

\* The NOT EXISTS subquery: a child run that has no finish, or a finish
\* created at or after the cutoff.
HasChildWithinRetention(r) ==
    \E c \in Runs :
        /\ function_runs[c].original_run_id = r
        /\ (c \notin Finishes \/ function_finishes[c] >= cutoff_date)

CompletedEligible ==
    {r \in Finishes : function_finishes[r] < cutoff_date /\ ~HasChildWithinRetention(r)}

\* Variant of V3IncompleteEligible that compares with the standard cutoff.
V3IncompleteEligibleStandardCutoff ==
    {r \in Runs : function_runs[r].run_started_at < cutoff_date /\ r \notin Finishes}

V3IncompleteEligible ==
    {r \in Runs : function_runs[r].run_started_at < double_cutoff_date /\ r \notin Finishes}

V3CompletedRuns == OrderByIdLimit(CompletedEligible, batch_size)

V3IncompleteRuns ==
    IF Cardinality(V3CompletedRuns) < batch_size
    THEN OrderByIdLimit(V3IncompleteEligible, batch_size - Cardinality(V3CompletedRuns))
    ELSE {}

V3GetFunctionRunsToDelete(fails) ==
    V3CompletedRuns \cup filter_safe_to_delete_incomplete_runs(V3IncompleteRuns, fails)

\* v2: the second branch of the UNION, every run started before the extended
\* cutoff, with or without a finish.
V2StuckEligible == {r \in Runs : function_runs[r].run_started_at < double_cutoff_date}

V2Candidates == CompletedEligible \cup V2StuckEligible

V2GetFunctionRunsToDelete == OrderByIdLimit(V2Candidates, batch_size)

-----------------------------------------------------------------------------
(* Bookkeeping shared by the orchestrators *)

Lanes == {"function_data", "events", "traces", "function_runs", "event_batches"}

LastNone ==
    [op |-> "none", run_ids |-> {}, skipped |-> {}, raised |-> {},
     del_runs |-> {}, del_finishes |-> {}, del_history |-> {},
     del_events |-> {}, del_traces |-> {}, count |-> 0,
     order |-> <<>>, failed |-> FALSE, gone |-> {}, ts |-> {}]

HistInit(n0) ==
    [cycles |-> [l \in Lanes |-> 0], counts |-> [l \in Lanes |-> <<>>], n0 |-> n0,
     max_ts |-> [l \in Lanes |-> NULL]]

\* One more cycle of lane l, which reported count c.
HistCycle(l, c) ==
    [hist EXCEPT !.cycles[l] = @ + 1, !.counts[l] = Append(@, c)]

MaxOf(S) == CHOOSE x \in S : \A y \in S : y <= x

\* h, with the timestamps ts of the records lane l has just handled: max_ts
\* is the newest timestamp the lane has handled since the run started.
HistHandled(h, l, ts) == [h EXCEPT !.max_ts[l] = MaxOf(ts \cup {@})]

\* The timestamp a run is selected by: created_at of its function_finishes
\* row, or run_started_at when it has none.
RunTimestamps(ids) ==
    {function_finishes[r] : r \in ids \cap Finishes}
    \cup {function_runs[r].run_started_at : r \in (ids \cap Runs) \ Finishes}

HistoryOfRuns(ids) == {h \in history : h.run_id \in ids}

AnyNeedsMore(nm) == \E k \in DOMAIN nm : nm[k]

\* Variant of LaneActive that runs every lane in every round.
LaneActiveAlways(l) == TRUE

\* "if needs_more['function_data']:" / "if tasks_state['events']:": a lane
\* runs its cycle in a round only while its flag is set.
LaneActive(l) == needs_more[l]

\* An environment in which no statement fails and no other process writes.
EnvNone == [db_error |-> FALSE, concurrent |-> FALSE, db_down |-> FALSE,
            runs_delete_denied |-> FALSE]

\* main() of cleanup_events_v1.py when the model does not follow it: the
\* cleaner is driven directly, and no signal arrives.  exit_code is the exit
\* status of the process once it has ended, StillRunning before.
StillRunning == -1

MainNone ==
    [pc |-> "none", should_exit |-> FALSE, run_interval |-> 0,
     inspect_schema |-> FALSE, iterations |-> 0, slept |-> FALSE,
     connect_failed |-> FALSE, exit_code |-> StillRunning]

\* Where a batch of n statements (the commit is the last one) of lane l can
\* raise: nowhere (0), or at statement 1..n.  Statements raise in the first
\* MaxFailingCycles cycles of a lane only.
FailPoints(l, n) ==
    IF env.db_error /\ hist.cycles[l] < MaxFailingCycles THEN 0..n ELSE {0}

\* Whether the SELECT that opens a cycle of lane l raises, under the same
\* limit as FailPoints.
SelectRaises(l) ==
    IF env.db_error /\ hist.cycles[l] < MaxFailingCycles THEN BOOLEAN ELSE {FALSE}

\* The first invocation of a script.
InvInit == [number |-> 1, prev |-> [l \in Lanes |-> 0], prev_dry |-> FALSE]

\* db_retry before its first use: the module sets db_is_healthy = True.
RetryInit ==
    [pc |-> "idle", max_retries |-> 1, retries |-> 0, attempts |-> 0, ops |-> 0,
     slept |-> 0, reconnects |-> 0, last_error |-> "none", outcome |-> "none",
     db_is_healthy |-> TRUE]

-----------------------------------------------------------------------------
(* RedisAwareInngestCleaner (v3) *)

\* The ids clean_function_data would select with Redis answering every call.
V3Candidates ==
    CompletedEligible \cup {r \in V3IncompleteEligible : ~RunSkipped(r, NoFail)}

\* connect(): the Redis ping either succeeds or raises; run_cleanup then ends
\* in its finally block without having entered the loop.
V3Connect ==
    /\ prog = "v3"
    /\ pc = "connect"
    /\ \E ping_ok \in BOOLEAN :
          pc' = IF ping_ok THEN "function_data" ELSE "failed"
    /\ UNCHANGED <<config, main, env, inv, retry, db, redis, needs_more, ec, last, hist>>

\* clean_function_data and the exhaustion test of run_cleanup (lines 794-809).
V3CleanFunctionData ==
    /\ prog = "v3"
    /\ pc = "function_data"
    /\ \E select_raises \in SelectRaises("function_data") :
          IF select_raises /\ LaneActive("function_data") /\ ~dry_run
          THEN \* get_function_runs_to_delete re-raises, clean_function_data has
               \* no handler around the call: run_cleanup ends in its finally
               /\ pc' = "failed"
               /\ last' = [LastNone EXCEPT !.op = "get_function_runs_to_delete",
                                           !.failed = TRUE]
               /\ UNCHANGED <<db, needs_more, hist>>
          ELSE /\ pc' = "events"
               /\ IF ~LaneActive("function_data")
                   THEN UNCHANGED <<db, needs_more, last, hist>>
                   ELSE IF dry_run
                   THEN /\ needs_more' = [needs_more EXCEPT !.function_data = ~(0 < batch_size)]
                        /\ last' = [LastNone EXCEPT !.op = "clean_function_data"]
                        /\ hist' = HistCycle("function_data", 0)
                        /\ UNCHANGED db
                   ELSE \E fails \in [V3IncompleteRuns -> RedisCalls \cup {NoFail}],
                           fail_at \in FailPoints("function_data", 4) :
                        LET run_ids == V3GetFunctionRunsToDelete(fails)
                            del_history == HistoryOfRuns(run_ids)
                            del_finishes == run_ids \cap Finishes
                            del_runs == run_ids \cap Runs
                            \* the three DELETEs and the commit; a statement that raises
                            \* leaves its stats entry 0 and ends in rollback() and return stats
                            raised == run_ids # {} /\ fail_at # 0
                            stats_history ==
                                IF raised /\ fail_at <= 1 THEN 0 ELSE Cardinality(del_history)
                            stats_function_finishes ==
                                IF raised /\ fail_at <= 2 THEN 0 ELSE Cardinality(del_finishes)
                            stats_function_runs ==
                                IF raised /\ fail_at <= 3 THEN 0 ELSE Cardinality(del_runs)
                            total_cleaned == stats_history + stats_function_finishes
                                             + stats_function_runs
                        IN  /\ history' = IF raised THEN history ELSE history \ del_history
                            /\ function_finishes' = IF raised THEN function_finishes
                                                    ELSE DeleteKeys(function_finishes, run_ids)
                            /\ function_runs' = IF raised THEN function_runs
                                                ELSE DeleteKeys(function_runs, run_ids)
                            /\ needs_more' = [needs_more EXCEPT
                                                !.function_data = ~(total_cleaned < batch_size)]
                            /\ last' = [LastNone EXCEPT
                                          !.op = "clean_function_data",
                                          !.run_ids = run_ids,
                                          !.skipped = V3IncompleteRuns \ run_ids,
                                          !.raised = {r \in V3IncompleteRuns :
                                                        RedisCheckRaises(DecodeFromBytea(r), fails[r])},
                                          !.del_runs = IF raised THEN {} ELSE del_runs,
                                          !.del_finishes = IF raised THEN {} ELSE del_finishes,
                                          !.del_history =
                                              IF raised THEN {} ELSE {h.id : h \in del_history},
                                          !.count = total_cleaned,
                                          !.order = IF run_ids = {} THEN <<>>
                                                    ELSE <<"history", "function_finishes",
                                                           "function_runs">>,
                                          !.failed = raised,
                                          !.ts = IF raised THEN {} ELSE RunTimestamps(run_ids)]
                            /\ hist' = HistHandled(HistCycle("function_data", total_cleaned),
                                                   "function_data",
                                                   IF raised THEN {} ELSE RunTimestamps(run_ids))
                            /\ UNCHANGED <<events, event_batches, trace_runs, traces>>
    /\ UNCHANGED <<config, main, env, inv, retry, redis, ec>>

\* get_referenced_event_ids(cutoff)
V3ReferencedEventIds ==
    {function_runs[r].event_id : r \in {x \in Runs :
          function_runs[x].event_id # NULL /\ function_runs[x].run_started_at >= cutoff_date}}
    \cup {h.event_id : h \in {x \in history :
          x.event_id # NULL /\ x.created_at >= cutoff_date}}

OldEvents == {e \in Events : events[e] < cutoff_date}

\* The sets of events one clean_events call can delete.  PostgreSQL: the
\* subquery LIMITs the old events before the reference test; SQLite: the
\* LIMIT applies to the old unreferenced events.
V3EventDeleteChoices ==
    IF db_type = "postgresql"
    THEN {{e \in lim : e \notin V3ReferencedEventIds} : lim \in LimitChoices(OldEvents, batch_size)}
    ELSE LimitChoices({e \in OldEvents : e \notin V3ReferencedEventIds}, batch_size)

\* Variant of CleanEventsCycle that does not look at dry_run.
CleanEventsCycleIgnoringDryRun ==
    /\ IF ~LaneActive("events")
       THEN UNCHANGED <<db, needs_more, last, hist>>
       ELSE \E del \in V3EventDeleteChoices, fail_at \in FailPoints("events", 2) :
            \* the DELETE raises before deleted is assigned (1), or a later
            \* statement or the commit raises (2); both end in rollback()
            LET deleted == IF fail_at = 1 THEN 0 ELSE Cardinality(del) IN
                /\ events' = IF fail_at # 0 THEN events ELSE DeleteKeys(events, del)
                /\ needs_more' = [needs_more EXCEPT !.events = ~(deleted < batch_size)]
                /\ last' = [LastNone EXCEPT !.op = "clean_events",
                                            !.del_events = IF fail_at # 0 THEN {} ELSE del,
                                            !.count = deleted,
                                            !.order = <<"events">>,
                                            !.failed = fail_at # 0,
                                            !.ts = IF fail_at # 0 THEN {}
                                                   ELSE {events[x] : x \in del}]
                /\ hist' = HistHandled(HistCycle("events", deleted), "events",
                                       IF fail_at # 0 THEN {}
                                       ELSE {events[x] : x \in del})
                /\ UNCHANGED <<function_runs, function_finishes, history,
                               event_batches, trace_runs, traces>>
    /\ UNCHANGED <<config, main, env, inv, retry, redis, ec>>

\* clean_events and the exhaustion test of run_cleanup that follows it.
CleanEventsCycle ==
    /\ IF ~LaneActive("events")
       THEN UNCHANGED <<db, needs_more, last, hist>>
       ELSE IF dry_run
       THEN /\ needs_more' = [needs_more EXCEPT !.events = ~(0 < batch_size)]
            /\ last' = [LastNone EXCEPT !.op = "clean_events"]
            /\ hist' = HistCycle("events", 0)
            /\ UNCHANGED db
       ELSE \E del \in V3EventDeleteChoices, fail_at \in FailPoints("events", 2) :
            \* the DELETE raises before deleted is assigned (1), or a later
            \* statement or the commit raises (2); both end in rollback()
            LET deleted == IF fail_at = 1 THEN 0 ELSE Cardinality(del) IN
                /\ events' = IF fail_at # 0 THEN events ELSE DeleteKeys(events, del)
                /\ needs_more' = [needs_more EXCEPT !.events = ~(deleted < batch_size)]
                /\ last' = [LastNone EXCEPT !.op = "clean_events",
                                            !.del_events = IF fail_at # 0 THEN {} ELSE del,
                                            !.count = deleted,
                                            !.order = <<"events">>,
                                            !.failed = fail_at # 0,
                                            !.ts = IF fail_at # 0 THEN {}
                                                   ELSE {events[x] : x \in del}]
                /\ hist' = HistHandled(HistCycle("events", deleted), "events",
                                       IF fail_at # 0 THEN {}
                                       ELSE {events[x] : x \in del})
                /\ UNCHANGED <<function_runs, function_finishes, history,
                               event_batches, trace_runs, traces>>
    /\ UNCHANGED <<config, main, env, inv, retry, redis, ec>>

V3CleanEvents ==
    /\ prog = "v3"
    /\ pc = "events"
    /\ pc' = "traces"
    /\ CleanEventsCycle

\* A selection of trace runs that looks at no ended_at.
TraceRunsOfAnyAge == DOMAIN trace_runs

\* WHERE ended_at IS NOT NULL AND ended_at < cutoff (clean_traces lines
\* 703-707, cleanup_trace_data lines 186-190).
OldTraceRuns == {t \in DOMAIN trace_runs : trace_runs[t] # NULL /\ trace_runs[t] < cutoff_date}

\* clean_traces and the exhaustion test of run_cleanup that follows it.
CleanTracesCycle ==
    /\ IF ~LaneActive("traces")
       THEN UNCHANGED <<db, needs_more, last, hist>>
       ELSE IF dry_run
       THEN /\ needs_more' = [needs_more EXCEPT !.traces = ~(0 < batch_size)]
            /\ last' = [LastNone EXCEPT !.op = "clean_traces"]
            /\ hist' = HistCycle("traces", 0)
            /\ UNCHANGED db
       ELSE \E run_ids \in LimitChoices(OldTraceRuns, batch_size),
               fail_at \in FailPoints("traces", 3) :
            LET del_traces == {t \in traces : t.run_id \in run_ids}
                \* the two DELETEs and the commit
                raised == run_ids # {} /\ fail_at # 0
                stats_traces == IF raised /\ fail_at <= 1 THEN 0 ELSE Cardinality(del_traces)
                stats_trace_runs == IF raised /\ fail_at <= 2 THEN 0 ELSE Cardinality(run_ids)
                total_cleaned == stats_traces + stats_trace_runs
            IN  /\ traces' = IF raised THEN traces ELSE traces \ del_traces
                /\ trace_runs' = IF raised THEN trace_runs
                                 ELSE DeleteKeys(trace_runs, run_ids)
                /\ needs_more' = [needs_more EXCEPT !.traces = ~(total_cleaned < batch_size)]
                /\ last' = [LastNone EXCEPT !.op = "clean_traces",
                                            !.run_ids = run_ids, !.count = total_cleaned,
                                            !.del_traces =
                                                IF raised THEN {}
                                                ELSE {t.id : t \in del_traces},
                                            !.order = IF run_ids = {} THEN <<>>
                                                      ELSE <<"traces", "trace_runs">>,
                                            !.failed = raised,
                                            !.ts = IF raised THEN {}
                                                   ELSE {trace_runs[x] : x \in run_ids}]
                /\ hist' = HistHandled(HistCycle("traces", total_cleaned), "traces",
                                       IF raised THEN {}
                                       ELSE {trace_runs[x] : x \in run_ids})
                /\ UNCHANGED <<events, function_runs, function_finishes, history,
                               event_batches>>
    /\ UNCHANGED <<config, main, env, inv, retry, redis, ec>>

V3CleanTraces ==
    /\ prog = "v3"
    /\ pc = "traces"
    /\ pc' = "redis_orphans"
    /\ CleanTracesCycle

\* The run ids clean_orphaned_redis_state finds in Redis (pause-run and
\* metadata keys) that its query does not find in function_runs.  PostgreSQL:
\* the text ids are cast to bytea for the comparison and the rows found come
\* back as text (encode(run_id, 'escape')).  SQLite: the text ids are bound
\* as they are, and a text value equals no stored byte string, so that the
\* query returns no row.
V3OrphanedRuns ==
    LET redis_run_ids == {s \in StrIds : redis.pr[s] # {}} \cup redis.metadata
        existing_runs ==
            IF db_type = "postgresql"
            THEN {DecodeFromBytea(r) : r \in Runs} \cap redis_run_ids
            ELSE {}
    IN  redis_run_ids \ existing_runs

\* A loop that asks for the Redis cleanup again in the next round.
V3RedisOrphansEveryRound == TRUE

\* needs_more['redis_orphans'] after the Redis cleanup has run (line 848).
V3RedisOrphansAfterRun == FALSE

\* clean_orphaned_redis_state, run once, then the loop test and the sleep
\* at the end of the round (lines 838-853).
V3CleanOrphanedRedis ==
    /\ prog = "v3"
    /\ pc = "redis_orphans"
    /\ LET nm == [needs_more EXCEPT !.redis_orphans = V3RedisOrphansAfterRun] IN
          /\ needs_more' = nm
          /\ pc' = IF AnyNeedsMore(nm) THEN "function_data" ELSE "done"
    /\ IF LaneActive("redis_orphans") /\ ~dry_run
       THEN LET orphaned_runs == V3OrphanedRuns IN
            /\ redis' = [redis EXCEPT
                           !.pr = [s \in StrIds |-> IF s \in orphaned_runs THEN {} ELSE @[s]],
                           !.metadata = @ \ orphaned_runs,
                           !.stack = @ \ orphaned_runs]
            /\ last' = [LastNone EXCEPT !.op = "clean_orphaned_redis_state"]
       ELSE UNCHANGED <<redis, last>>
    /\ UNCHANGED <<config, main, env, inv, retry, db, ec, hist>>

NextV3 ==
    \/ V3Connect
    \/ V3CleanFunctionData
    \/ V3CleanEvents
    \/ V3CleanTraces
    \/ V3CleanOrphanedRedis

-----------------------------------------------------------------------------
(* ImprovedInngestCleaner (v2) *)

\* clean_function_data of v2: the run batch, then orphaned history rows, then
\* orphaned function_finishes rows, each found after the previous commit.
V2CleanFunctionData ==
    /\ prog = "v2"
    /\ pc = "function_data"
    /\ pc' = "events"
    /\ IF ~LaneActive("function_data")
       THEN UNCHANGED <<db, needs_more, last, hist>>
       ELSE IF dry_run
       THEN /\ needs_more' = [needs_more EXCEPT !.function_data = ~(0 < batch_size)]
            /\ last' = [LastNone EXCEPT !.op = "clean_function_data"]
            /\ hist' = HistCycle("function_data", 0)
            /\ UNCHANGED db
       ELSE LET run_ids == V2GetFunctionRunsToDelete
                del_history == HistoryOfRuns(run_ids)
                del_finishes == run_ids \cap Finishes
                del_runs == run_ids \cap Runs
                history1 == history \ del_history
                runs1 == Runs \ run_ids
                finishes1 == Finishes \ run_ids
                orphaned_history ==
                    {h \in history1 : h.created_at < cutoff_date /\ h.run_id \notin runs1}
                orphaned_finishes ==
                    {r \in finishes1 : function_finishes[r] < cutoff_date /\ r \notin runs1}
            IN  \E history_ids \in LimitChoices(orphaned_history, batch_size),
                   finish_run_ids \in LimitChoices(orphaned_finishes, batch_size) :
                LET total_cleaned ==
                        Cardinality(del_history) + Cardinality(del_finishes)
                        + Cardinality(del_runs) + Cardinality(history_ids)
                        + Cardinality(finish_run_ids)
                IN  /\ history' = history1 \ history_ids
                    /\ function_finishes' =
                           DeleteKeys(function_finishes, run_ids \cup finish_run_ids)
                    /\ function_runs' = DeleteKeys(function_runs, run_ids)
                    /\ needs_more' = [needs_more EXCEPT
                                        !.function_data = ~(total_cleaned < batch_size)]
                    /\ last' = [LastNone EXCEPT
                                  !.op = "clean_function_data",
                                  !.run_ids = run_ids,
                                  !.del_runs = del_runs,
                                  !.del_finishes = del_finishes \cup finish_run_ids,
                                  !.del_history = {h.id : h \in del_history \cup history_ids},
                                  !.count = total_cleaned,
                                  !.order = IF run_ids = {} THEN <<>>
                                            ELSE <<"history", "function_finishes",
                                                   "function_runs">>,
                                  !.ts = RunTimestamps(run_ids)]
                    /\ hist' = HistHandled(HistCycle("function_data", total_cleaned),
                                           "function_data", RunTimestamps(run_ids))
                    /\ UNCHANGED <<events, event_batches, trace_runs, traces>>
    /\ UNCHANGED <<config, main, env, inv, retry, redis, ec>>

V2CleanEvents ==
    /\ prog = "v2"
    /\ pc = "events"
    /\ pc' = "traces"
    /\ CleanEventsCycle

\* clean_traces, then the loop test of run_cleanup.
V2CleanTraces ==
    /\ prog = "v2"
    /\ pc = "traces"
    /\ CleanTracesCycle
    /\ pc' = IF AnyNeedsMore(needs_more') THEN "function_data" ELSE "done"

NextV2 ==
    \/ V2CleanFunctionData
    \/ V2CleanEvents
    \/ V2CleanTraces

-----------------------------------------------------------------------------
(* cleanupv2-sqlite.py, and cleanupv2.py, whose cleanup_* functions issue the
   same statements on PostgreSQL *)

\* The scripts whose main() keeps tasks_state and calls the cleanup_* functions.
TasksStatePrograms == {"sqlite", "pg"}

\* The end of a round of main(): cleanupv2-sqlite.py goes back to the test
\* of its while loop; cleanupv2.py first executes "i+=1", and i, a local
\* name that is never assigned, raises UnboundLocalError: the except branch
\* of main logs it, rolls back, and the process ends.
EndOfRound(tasks_state) ==
    IF prog = "pg" THEN "failed"
    ELSE IF AnyNeedsMore(tasks_state) THEN "function_data" ELSE "done"

\* temp_keep_events of cleanup_events: every event_id of function_runs and of
\* history that is not NULL.
SqliteKeepEvents ==
    {function_runs[r].event_id : r \in {x \in Runs : function_runs[x].event_id # NULL}}
    \cup {h.event_id : h \in {x \in history : x.event_id # NULL}}

SqliteEventCandidates == {e \in OldEvents : e \notin SqliteKeepEvents}

\* The count a lane cycle writes to hist, with the number of rows that were
\* eligible when the lane ran its first cycle.
HistLaneCycle(l, c, n) ==
    [HistCycle(l, c) EXCEPT !.n0[l] = IF hist.cycles[l] = 0 THEN n ELSE @]

\* The selected ids whose rows another cleanup process, working on the same
\* database, has removed between this process's SELECT and its DELETEs (the
\* two are separate transactions).
ConcurrentlyGone(ids) == IF env.concurrent THEN SUBSET ids ELSE {{}}

\* cleanup_function_data and the test of main that follows it.
SqliteCleanupFunctionData ==
    /\ prog \in TasksStatePrograms
    /\ pc = "function_data"
    /\ pc' = "events"
    /\ IF ~LaneActive("function_data")
       THEN UNCHANGED <<db, needs_more, last, hist>>
       ELSE \E run_ids \in OrderByTimeLimitChoices(CompletedEligible, function_finishes,
                                                   batch_size) :
            \E gone \in ConcurrentlyGone(run_ids) :
            LET count == Cardinality(run_ids)
                mine == run_ids \ gone
            IN
                /\ function_runs' = DeleteKeys(function_runs, run_ids)
                /\ function_finishes' = DeleteKeys(function_finishes, run_ids)
                /\ history' = history \ HistoryOfRuns(run_ids)
                /\ needs_more' = [needs_more EXCEPT !.function_data = ~(count < batch_size)]
                /\ last' = [LastNone EXCEPT
                              !.op = "cleanup_function_data",
                              !.run_ids = run_ids,
                              !.del_runs = mine \cap Runs,
                              !.del_finishes = mine,
                              !.del_history = {h.id : h \in HistoryOfRuns(mine)},
                              !.count = count,
                              !.order = IF run_ids = {} THEN <<>>
                                        ELSE <<"function_runs", "function_finishes",
                                               "history">>,
                              !.gone = gone,
                              !.ts = RunTimestamps(run_ids)]
                /\ hist' = HistHandled(HistLaneCycle("function_data", count,
                                                     Cardinality(CompletedEligible)),
                                       "function_data", RunTimestamps(run_ids))
                /\ UNCHANGED <<events, event_batches, trace_runs, traces>>
    /\ UNCHANGED <<config, main, env, inv, retry, redis, ec>>

\* cleanup_events and the test of main that follows it.
SqliteCleanupEvents ==
    /\ prog \in TasksStatePrograms
    /\ pc = "events"
    /\ pc' = "trace_data"
    /\ IF ~LaneActive("events")
       THEN UNCHANGED <<db, needs_more, last, hist>>
       ELSE \E del \in LimitChoices(SqliteEventCandidates, batch_size) :
            LET deleted == Cardinality(del) IN
                /\ events' = DeleteKeys(events, del)
                /\ needs_more' = [needs_more EXCEPT !.events = ~(deleted < batch_size)]
                /\ last' = [LastNone EXCEPT !.op = "cleanup_events",
                                            !.del_events = del, !.count = deleted,
                                            !.order = <<"events">>,
                                            !.ts = {events[x] : x \in del}]
                /\ hist' = HistHandled(HistLaneCycle("events", deleted,
                                                     Cardinality(SqliteEventCandidates)),
                                       "events", {events[x] : x \in del})
                /\ UNCHANGED <<function_runs, function_finishes, history,
                               event_batches, trace_runs, traces>>
    /\ UNCHANGED <<config, main, env, inv, retry, redis, ec>>

\* cleanup_trace_data, the test of main that follows it, and the loop test.
SqliteCleanupTraceData ==
    /\ prog \in TasksStatePrograms
    /\ pc = "trace_data"
    /\ IF ~LaneActive("trace_data")
       THEN /\ pc' = EndOfRound(needs_more)
            /\ UNCHANGED <<db, needs_more, last, hist>>
       ELSE \E trace_run_ids \in OrderByTimeLimitChoices(OldTraceRuns, trace_runs,
                                                         batch_size) :
            \E gone \in ConcurrentlyGone(trace_run_ids) :
            LET count == Cardinality(trace_run_ids)
                tasks_state == [needs_more EXCEPT !.trace_data = ~(count < batch_size)]
            IN  /\ traces' = {t \in traces : t.run_id \notin trace_run_ids}
                /\ trace_runs' = DeleteKeys(trace_runs, trace_run_ids)
                /\ needs_more' = tasks_state
                /\ pc' = EndOfRound(tasks_state)
                /\ last' = [LastNone EXCEPT !.op = "cleanup_trace_data",
                                            !.run_ids = trace_run_ids, !.count = count,
                                            !.del_traces =
                                                {t.id : t \in {x \in traces :
                                                    x.run_id \in trace_run_ids \ gone}},
                                            !.order = IF trace_run_ids = {} THEN <<>>
                                                      ELSE <<"traces", "trace_runs">>,
                                            !.gone = gone,
                                            !.ts = {trace_runs[x] : x \in trace_run_ids}]
                /\ hist' = HistHandled(HistLaneCycle("traces", count,
                                                     Cardinality(OldTraceRuns)),
                                       "traces", {trace_runs[x] : x \in trace_run_ids})
                /\ UNCHANGED <<events, function_runs, function_finishes, history,
                               event_batches>>
    /\ UNCHANGED <<config, main, env, inv, retry, redis, ec>>

NextSqlite ==
    \/ SqliteCleanupFunctionData
    \/ SqliteCleanupEvents
    \/ SqliteCleanupTraceData

-----------------------------------------------------------------------------
(* EventCleaner (cleanup_events_v1.py) *)

\* encode(x, 'hex') of a one-byte identifier: its two hexadecimal digits.
HexEncode(id) == <<id \div 16, id % 16>>

\* encode(eb.event_ids, 'hex'): the digits of the identifiers stored in the batch.
RECURSIVE HexEncodeIds(_)
HexEncodeIds(ids) ==
    IF ids = <<>> THEN <<>> ELSE HexEncode(Head(ids)) \o HexEncodeIds(Tail(ids))

\* position(sub in str) > 0
PositionFound(sub, str) ==
    \E i \in 1..(Len(str) - Len(sub) + 1) : SubSeq(str, i, i + Len(sub) - 1) = sub

\* The WHERE clause of the events statements of cleanup().
EcEventEligible(e) ==
    /\ events[e] < cutoff_date
    /\ ~\E r \in Runs : function_runs[r].event_id = e
    /\ ~\E eb \in event_batches : PositionFound(HexEncode(e), HexEncodeIds(eb.event_ids))

EcEligibleRuns == {r \in Runs : function_runs[r].run_started_at < cutoff_date}
EcEligibleBatches == {eb \in event_batches : eb.created_at < cutoff_date}
EcEligibleEvents == {e \in Events : EcEventEligible(e)}

\* Variant of EcAfterCycle that ends the loop on an empty batch only.
EcAfterCycleUntilEmpty(lane, count, n, processed, next_pc, ts) ==
    /\ hist' = HistHandled(HistLaneCycle(lane, count, n), lane, ts)
    /\ IF count = 0
       THEN /\ pc' = next_pc
            /\ ec' = [ec EXCEPT !.processed_ids = {}, !.in_loop = FALSE]
       ELSE /\ pc' = pc
            /\ ec' = [ec EXCEPT !.processed_ids = processed, !.in_loop = TRUE]

\* What one pass of a lane loop leaves in the loop's locals and in hist:
\* count rows were selected or deleted; the loop ends on an empty batch or a
\* batch smaller than batch_size, and the next phase of full_cleanup starts.
EcAfterCycle(lane, count, n, processed, next_pc, ts) ==
    /\ hist' = HistHandled(HistLaneCycle(lane, count, n), lane, ts)
    /\ IF count = 0 \/ count < batch_size
       THEN /\ pc' = next_pc
            /\ ec' = [ec EXCEPT !.processed_ids = {}, !.in_loop = FALSE]
       ELSE /\ pc' = pc
            /\ ec' = [ec EXCEPT !.processed_ids = processed, !.in_loop = TRUE]

\* The DELETE ... ORDER BY ... LIMIT statement is rejected by the server: the
\* error is logged by the except branch of the loop, which then goes on.
EcStatementRejected ==
    /\ ec' = [ec EXCEPT !.errors = TRUE, !.in_loop = TRUE]
    /\ UNCHANGED <<db, pc, last, hist>>

\* Variant of EcMayStartBatch whose loop head does not look at should_exit.
EcMayStartBatchIgnoringExit == ~ec.waiting /\ ~env.db_down

\* The head of a lane loop lets a pass start: should_exit is not set, the
\* wait after a failed pass is over, and the database answers.
EcMayStartBatch == ~main.should_exit /\ ~ec.waiting /\ ~env.db_down

\* One pass of the loop of cleanup_function_runs (phase 1 of full_cleanup).
EcCleanupFunctionRuns ==
    /\ prog = "ec"
    /\ pc = "function_runs"
    /\ EcMayStartBatch
    /\ LET started == [r \in Runs |-> function_runs[r].run_started_at] IN
       IF dry_run
       THEN \E rows \in OrderByTimeLimitChoices(EcEligibleRuns \ ec.processed_ids,
                                                started, batch_size) :
               /\ EcAfterCycle("function_runs", Cardinality(rows),
                               Cardinality(EcEligibleRuns),
                               ec.processed_ids \cup rows, "event_batches",
                               {started[r] : r \in rows})
               /\ last' = [LastNone EXCEPT !.op = "cleanup_function_runs",
                                           !.run_ids = rows, !.count = Cardinality(rows),
                                           !.ts = {started[r] : r \in rows}]
               /\ UNCHANGED db
       ELSE IF ~ec.delete_limit_ok
       THEN EcStatementRejected
       ELSE \E rows \in OrderByTimeLimitChoices(EcEligibleRuns, started, batch_size) :
               /\ function_runs' = DeleteKeys(function_runs, rows)
               /\ EcAfterCycle("function_runs", Cardinality(rows),
                               Cardinality(EcEligibleRuns), {}, "event_batches",
                               {started[r] : r \in rows})
               /\ last' = [LastNone EXCEPT !.op = "cleanup_function_runs",
                                           !.run_ids = rows, !.del_runs = rows,
                                           !.count = Cardinality(rows),
                                           !.ts = {started[r] : r \in rows}]
               /\ UNCHANGED <<events, function_finishes, history, event_batches,
                              trace_runs, traces>>
    /\ UNCHANGED <<config, main, env, inv, retry, redis, needs_more>>

\* One pass of the loop of cleanup_event_batches (phase 2); the phase is
\* skipped when the table has none of the timestamp columns it looks for.
EcCleanupEventBatches ==
    /\ prog = "ec"
    /\ pc = "event_batches"
    /\ EcMayStartBatch
    /\ LET created == [eb \in event_batches |-> eb.created_at] IN
       IF ~ec.ts_column
       THEN /\ pc' = "events"
            /\ UNCHANGED <<db, ec, last, hist>>
       ELSE IF dry_run
       THEN \E rows \in OrderByTimeLimitChoices(
                           {eb \in EcEligibleBatches : eb.id \notin ec.processed_ids},
                           created, batch_size) :
               /\ EcAfterCycle("event_batches", Cardinality(rows),
                               Cardinality(EcEligibleBatches),
                               ec.processed_ids \cup {eb.id : eb \in rows}, "events",
                               {eb.created_at : eb \in rows})
               /\ last' = [LastNone EXCEPT !.op = "cleanup_event_batches",
                                           !.count = Cardinality(rows),
                                           !.ts = {eb.created_at : eb \in rows}]
               /\ UNCHANGED db
       ELSE IF ~ec.delete_limit_ok
       THEN EcStatementRejected
       ELSE \E rows \in OrderByTimeLimitChoices(EcEligibleBatches, created, batch_size) :
               /\ event_batches' = event_batches \ rows
               /\ EcAfterCycle("event_batches", Cardinality(rows),
                               Cardinality(EcEligibleBatches), {}, "events",
                               {eb.created_at : eb \in rows})
               /\ last' = [LastNone EXCEPT !.op = "cleanup_event_batches",
                                           !.count = Cardinality(rows),
                                           !.ts = {eb.created_at : eb \in rows}]
               /\ UNCHANGED <<events, function_runs, function_finishes, history,
                              trace_runs, traces>>
    /\ UNCHANGED <<config, main, env, inv, retry, redis, needs_more>>

\* One pass of the loop of cleanup() (phase 3: events).
EcCleanup ==
    /\ prog = "ec"
    /\ pc = "events"
    /\ EcMayStartBatch
    /\ IF dry_run
       THEN \E rows \in OrderByTimeLimitChoices(EcEligibleEvents \ ec.processed_ids,
                                                events, batch_size) :
               /\ EcAfterCycle("events", Cardinality(rows), Cardinality(EcEligibleEvents),
                               ec.processed_ids \cup rows, "done",
                               {events[x] : x \in rows})
               /\ last' = [LastNone EXCEPT !.op = "cleanup", !.count = Cardinality(rows),
                                           !.ts = {events[x] : x \in rows}]
               /\ UNCHANGED db
       ELSE IF ~ec.delete_limit_ok
       THEN EcStatementRejected
       ELSE \E rows \in OrderByTimeLimitChoices(EcEligibleEvents, events, batch_size) :
               /\ events' = DeleteKeys(events, rows)
               /\ EcAfterCycle("events", Cardinality(rows), Cardinality(EcEligibleEvents),
                               {}, "done", {events[x] : x \in rows})
               /\ last' = [LastNone EXCEPT !.op = "cleanup", !.del_events = rows,
                                           !.count = Cardinality(rows),
                                           !.ts = {events[x] : x \in rows}]
               /\ UNCHANGED <<function_runs, function_finishes, history, event_batches,
                              trace_runs, traces>>
    /\ UNCHANGED <<config, main, env, inv, retry, redis, needs_more>>

NextEc ==
    \/ EcCleanupFunctionRuns
    \/ EcCleanupEventBatches
    \/ EcCleanup

-----------------------------------------------------------------------------
(* main() of cleanup_events_v1.py: the scheduling loop around full_cleanup *)

\* Minutes between two runs: 0 = run once and exit.
RunIntervals == {0, 1}

\* The phase full_cleanup goes to when the phase at pc returns.
EcNextPhase ==
    IF pc = "function_runs" THEN "event_batches"
    ELSE IF pc = "event_batches" THEN "events" ELSE "done"

\* "if run_interval == 0 or should_exit: break" after the try statement of
\* the loop body; after the loop the process ends, with exit code 0.
MainAfterBody ==
    IF main.run_interval = 0 \/ main.should_exit
    THEN [main EXCEPT !.pc = "exited", !.exit_code = 0]
    ELSE [main EXCEPT !.pc = "sleep"]

\* "while not should_exit" is false: the loop ends and the process exits.
MainLoopExit ==
    /\ main.pc = "loop"
    /\ main.should_exit
    /\ main' = [main EXCEPT !.pc = "exited", !.exit_code = 0]
    /\ UNCHANGED <<config, db, redis, pc, needs_more, ec, last, hist, env, inv, retry>>

\* The loop body up to the call of full_cleanup: the EventCleaner is
\* constructed (it connects), and --inspect-schema is served.
MainIterate ==
    /\ main.pc = "loop"
    /\ ~main.should_exit
    /\ main.iterations < MaxIterations
    /\ LET m == [main EXCEPT !.iterations = @ + 1, !.slept = FALSE] IN
       IF env.db_down
       THEN \* connect_db raises, "except Exception" logs and sleeps retry_delay
            /\ main' = [m EXCEPT !.pc = "retry_wait", !.connect_failed = TRUE]
            /\ UNCHANGED <<pc, ec, last, hist>>
       ELSE IF main.inspect_schema
       THEN \* inspect_schema(), then "continue": back to the head of the loop
            /\ main' = [m EXCEPT !.pc = "loop"]
            /\ UNCHANGED <<pc, ec, last, hist>>
       ELSE /\ main' = [m EXCEPT !.pc = "run"]
            /\ pc' = "function_runs"
            /\ ec' = [ec EXCEPT !.processed_ids = {}, !.errors = FALSE,
                                !.in_loop = FALSE, !.waiting = FALSE]
            /\ last' = LastNone
            /\ hist' = HistInit([l \in Lanes |-> 0])
    /\ UNCHANGED <<config, db, redis, needs_more, env, inv, retry>>

\* full_cleanup has returned; the cleaner is closed.
MainRunOver ==
    /\ main.pc = "run"
    /\ pc = "done"
    /\ main' = MainAfterBody
    /\ UNCHANGED <<config, db, redis, pc, needs_more, ec, last, hist, env, inv, retry>>

\* time.sleep(retry_delay) of the except branch of the loop body returns.
MainRetryDelayOver ==
    /\ main.pc = "retry_wait"
    /\ main' = MainAfterBody
    /\ UNCHANGED <<config, db, redis, pc, needs_more, ec, last, hist, env, inv, retry>>

\* The sleep until the next run, in increments of one second, ends: the
\* remainder of the interval has passed, or should_exit was seen.
MainSleepOver ==
    /\ main.pc = "sleep"
    /\ main' = [main EXCEPT !.pc = "loop", !.slept = ~main.should_exit]
    /\ UNCHANGED <<config, db, redis, pc, needs_more, ec, last, hist, env, inv, retry>>

\* SIGINT or SIGTERM arrives: signal_handler sets should_exit.
Signal ==
    /\ main.pc \notin {"none", "exited"}
    /\ ~main.should_exit
    /\ main' = [main EXCEPT !.should_exit = TRUE]
    /\ UNCHANGED <<config, db, redis, pc, needs_more, ec, last, hist, env, inv, retry>>

\* The database stops answering (and, unless DbComesBack is part of the
\* specification, stays so).
DbGoesDown ==
    /\ main.pc \notin {"none", "exited"}
    /\ ~env.db_down
    /\ env' = [env EXCEPT !.db_down = TRUE]
    /\ UNCHANGED <<config, main, db, redis, pc, needs_more, ec, last, hist, inv, retry>>

\* The database answers again: the outage was a passing one.
DbComesBack ==
    /\ main.pc \notin {"none", "exited"}
    /\ env.db_down
    /\ env' = [env EXCEPT !.db_down = FALSE]
    /\ UNCHANGED <<config, main, db, redis, pc, needs_more, ec, last, hist, inv, retry>>

\* get_table_columns fails before the loop of cleanup_function_runs or of
\* cleanup_event_batches is entered: the phase logs the error and returns 0.
EcPrologueFails ==
    /\ prog = "ec"
    /\ main.pc = "run"
    /\ pc \in {"function_runs", "event_batches"}
    /\ ~ec.in_loop
    /\ env.db_down
    /\ ~main.should_exit
    /\ pc' = EcNextPhase
    /\ ec' = [ec EXCEPT !.errors = TRUE]
    /\ last' = [LastNone EXCEPT !.op = pc, !.failed = TRUE]
    /\ UNCHANGED <<config, main, db, redis, needs_more, hist, env, inv, retry>>

\* Variant of EcBatchFails whose loop goes on failing with should_exit set.
EcBatchFailsIgnoringExit ==
    /\ prog = "ec"
    /\ main.pc = "run"
    /\ pc \in {"function_runs", "event_batches", "events"}
    /\ pc = "events" \/ ec.in_loop
    /\ env.db_down
    /\ ~ec.waiting
    /\ ec' = [ec EXCEPT !.errors = TRUE, !.in_loop = TRUE, !.waiting = TRUE]
    /\ last' = [LastNone EXCEPT !.op = pc, !.failed = TRUE]
    /\ UNCHANGED <<config, main, db, redis, pc, needs_more, hist, env, inv, retry>>

\* A pass of a lane loop fails: db_retry gives up, the except branch of the
\* loop logs the error and starts time.sleep(retry_delay).
EcBatchFails ==
    /\ prog = "ec"
    /\ main.pc = "run"
    /\ pc \in {"function_runs", "event_batches", "events"}
    /\ pc = "events" \/ ec.in_loop
    /\ env.db_down
    /\ ~main.should_exit
    /\ ~ec.waiting
    /\ ec' = [ec EXCEPT !.errors = TRUE, !.in_loop = TRUE, !.waiting = TRUE]
    /\ last' = [LastNone EXCEPT !.op = pc, !.failed = TRUE]
    /\ UNCHANGED <<config, main, db, redis, pc, needs_more, hist, env, inv, retry>>

\* time.sleep(retry_delay) of the except branch of a lane loop returns; the
\* loop goes back to its head.
EcRetryDelayOver ==
    /\ prog = "ec"
    /\ main.pc = "run"
    /\ ec.waiting
    /\ ec' = [ec EXCEPT !.waiting = FALSE]
    /\ UNCHANGED <<config, main, db, redis, pc, needs_more, last, hist, env, inv, retry>>

\* should_exit is set when a lane loop is at its head, or when a phase of
\* full_cleanup has returned: the loop ends, full_cleanup returns.
EcCancelled ==
    /\ prog = "ec"
    /\ main.pc = "run"
    /\ pc \in {"function_runs", "event_batches", "events"}
    /\ main.should_exit
    /\ ~ec.waiting
    /\ pc' = "done"
    /\ ec' = [ec EXCEPT !.processed_ids = {}, !.in_loop = FALSE]
    /\ UNCHANGED <<config, main, db, redis, needs_more, last, hist, env, inv, retry>>

NextMain ==
    \/ MainLoopExit
    \/ MainIterate
    \/ MainRunOver
    \/ MainRetryDelayOver
    \/ MainSleepOver
    \/ EcCleanupFunctionRuns
    \/ EcCleanupEventBatches
    \/ EcCleanup
    \/ EcPrologueFails
    \/ EcBatchFails
    \/ EcRetryDelayOver
    \/ EcCancelled

\* What the environment of the process does.
NextMainEnv ==
    \/ Signal
    \/ DbGoesDown

-----------------------------------------------------------------------------
(* EventCleaner.db_retry (cleanup_events_v1.py, cleanup_events.py) *)

\* What the body of a "with self.db_retry():" block can raise: subclasses of
\* psycopg2.Error, and TypeError, which is not one.
PsycopgErrors ==
    {"OperationalError", "InterfaceError", "IntegrityError", "ProgrammingError",
     "DataError"}

ErrorKinds == PsycopgErrors \cup {"TypeError"}

\* __enter__: the generator starts, sets retries = 0 and stops at its yield;
\* the body of the with block runs next.
DbRetryEnter ==
    /\ retry.pc = "idle"
    /\ retry.ops < MaxOps
    /\ retry' = [retry EXCEPT !.pc = "body", !.ops = @ + 1, !.retries = 0,
                              !.attempts = 0, !.slept = 0, !.reconnects = 0,
                              !.last_error = "none", !.outcome = "none"]
    /\ UNCHANGED <<config, main, db, redis, pc, needs_more, ec, last, hist, env, inv>>

\* The body runs and __exit__ resumes the generator at the yield: after a
\* body without error the generator sets db_is_healthy and returns; an error
\* is thrown into it, where "except psycopg2.Error" counts it, marks the
\* database unhealthy and re-raises once retries >= max_retries, and
\* otherwise sleeps and goes on to reconnect_db(); any other error leaves
\* the generator at once.
DbRetryBody ==
    /\ retry.pc = "body"
    /\ \E result \in {"ok"} \cup ErrorKinds :
          retry' =
            IF result = "ok"
            THEN [retry EXCEPT !.attempts = @ + 1, !.db_is_healthy = TRUE,
                               !.outcome = "success", !.pc = "idle"]
            ELSE IF result \notin PsycopgErrors
            THEN [retry EXCEPT !.attempts = @ + 1, !.last_error = result,
                               !.outcome = result, !.pc = "idle"]
            ELSE IF retry.retries + 1 >= retry.max_retries
            THEN [retry EXCEPT !.attempts = @ + 1, !.last_error = result,
                               !.retries = @ + 1, !.db_is_healthy = FALSE,
                               !.outcome = result, !.pc = "idle"]
            ELSE [retry EXCEPT !.attempts = @ + 1, !.last_error = result,
                               !.retries = @ + 1, !.slept = @ + 1,
                               !.pc = "reconnect"]
    /\ UNCHANGED <<config, main, db, redis, pc, needs_more, ec, last, hist, env, inv>>

\* reconnect_db() inside the except block.  connect_db() fails: it marks the
\* database unhealthy and its error leaves the generator.  connect_db()
\* succeeds: it marks the database healthy, the while loop comes back to the
\* yield, and the @contextmanager __exit__, whose throw() got a second yield
\* instead of the end of the generator, raises RuntimeError("generator
\* didn't stop after throw()"); the body is not run again.
DbRetryReconnect ==
    /\ retry.pc = "reconnect"
    /\ \E connected \in BOOLEAN :
          retry' = [retry EXCEPT !.reconnects = @ + 1,
                                !.db_is_healthy = connected,
                                !.outcome = IF connected THEN "RuntimeError"
                                            ELSE "ConnectError",
                                !.pc = "idle"]
    /\ UNCHANGED <<config, main, db, redis, pc, needs_more, ec, last, hist, env, inv>>

NextRetry ==
    \/ DbRetryEnter
    \/ DbRetryBody
    \/ DbRetryReconnect

-----------------------------------------------------------------------------
(* Initial databases *)

\* EventCleaner state of a run in which EventCleaner does not take part.
EcInit == [delete_limit_ok |-> TRUE, ts_column |-> TRUE, processed_ids |-> {},
           errors |-> FALSE, in_loop |-> FALSE, waiting |-> FALSE]

\* One run of the initial database: absent, finished, or unfinished with at
\* most one kind of Redis state.  Redis state of a finished run is already
\* cleared by Inngest; a retry has a larger (later) ULID than its original.
RunProfiles(r) ==
    {[present |-> FALSE, started |-> NULL, fin |-> NULL, orig |-> NULL, live |-> l] :
        l \in {"none", "pr", "metadata", "stack"}}
    \cup {[present |-> TRUE, started |-> t, fin |-> f, orig |-> o, live |-> "none"] :
            t \in Times, f \in Times, o \in {NULL} \cup {x \in RunIds : x < r}}
    \cup {[present |-> TRUE, started |-> t, fin |-> NULL, orig |-> o, live |-> l] :
            t \in Times, o \in {NULL} \cup {x \in RunIds : x < r},
            l \in {"none", "pr", "metadata", "stack"}}

RunProfileOk(p) == p.present /\ p.fin # NULL => p.fin >= p.started

\* original_run_id names a run that is still in the table (a reference to a
\* run already removed matches no row of any query).
OriginalPresent(p) ==
    \A r \in RunIds : p[r].present /\ p[r].orig # NULL => p[p[r].orig].present

AllRunProfiles == UNION {RunProfiles(r) : r \in RunIds}

\* The run tables and the Redis keys described by the profiles p.
RunTablesFrom(p) ==
    /\ function_runs = [r \in {x \in RunIds : p[x].present} |->
                          [run_started_at |-> p[r].started, event_id |-> NULL,
                           original_run_id |-> p[r].orig]]
    /\ function_finishes = [r \in {x \in RunIds : p[x].present /\ p[x].fin # NULL} |->
                              p[r].fin]
    /\ redis = [pr |-> [s \in StrIds |->
                          IF \E r \in RunIds : DecodeFromBytea(r) = s /\ p[r].live = "pr"
                          THEN PauseIds ELSE {}],
                pauses |-> IF \E r \in RunIds : p[r].live = "pr" THEN PauseIds ELSE {},
                metadata |-> {DecodeFromBytea(r) : r \in {x \in RunIds : p[x].live = "metadata"}},
                stack |-> {DecodeFromBytea(r) : r \in {x \in RunIds : p[x].live = "stack"}}]

V3NeedsMoreInit ==
    [function_data |-> TRUE, events |-> TRUE, traces |-> TRUE, redis_orphans |-> TRUE]

V2NeedsMoreInit == [function_data |-> TRUE, events |-> TRUE, traces |-> TRUE]

\* Databases that vary the run family, cleaned by v3 or by v2; the other
\* tables are empty.  v2 never looks at Redis.  The run-family statements are
\* the same text for both database types.
InitRuns ==
    /\ prog \in {"v3", "v2"}
    /\ db_type = "postgresql"
    /\ batch_size \in BatchSizes
    /\ dry_run = FALSE
    /\ \E p \in [RunIds -> AllRunProfiles] :
          /\ \A r \in RunIds : IF p[r].orig = NULL THEN TRUE ELSE p[r].orig < r
          /\ \A r \in RunIds : RunProfileOk(p[r]) /\ p[r] \in RunProfiles(r)
          /\ OriginalPresent(p)
          /\ prog = "v2" => \A r \in RunIds : p[r].live = "none"
          /\ RunTablesFrom(p)
    /\ events = <<>>
    /\ history = {}
    /\ event_batches = {}
    /\ trace_runs = <<>>
    /\ traces = {}
    /\ pc = IF prog = "v3" THEN "connect" ELSE "function_data"
    /\ needs_more = IF prog = "v3" THEN V3NeedsMoreInit ELSE V2NeedsMoreInit
    /\ ec = EcInit
    /\ last = LastNone
    /\ env = EnvNone
    /\ main = MainNone
    /\ inv = InvInit
    /\ retry = RetryInit
    /\ hist = HistInit([l \in Lanes |->
                 IF l = "function_data"
                 THEN Cardinality(IF prog = "v3" THEN V3Candidates ELSE V2Candidates)
                 ELSE 0])

SpecRuns == InitRuns /\ [][NextV3 \/ NextV2]_vars

\* One run of a database that varies the events: the run may name the event
\* that triggered it, and it then started no earlier than the event arrived.
\* A finished run finished in the period it started in.
EventRunProfiles ==
    {[present |-> FALSE, started |-> NULL, fin |-> NULL, event_id |-> NULL]}
    \cup UNION {{[present |-> TRUE, started |-> t, fin |-> f, event_id |-> e] :
                    f \in {NULL, t}, e \in {NULL} \cup EventIds} : t \in Times}

EventRunProfileOk(p, ev) ==
    /\ p.present /\ p.fin # NULL => p.fin >= p.started
    /\ p.present /\ p.event_id # NULL /\ ev[p.event_id] # NULL => p.started >= ev[p.event_id]

\* At most one history row; it belongs to the first run id and names an event.
HistoryChoices ==
    {{}} \cup {{[id |-> 1, run_id |-> 1, event_id |-> e, created_at |-> t]} :
                 e \in EventIds, t \in Times}

NoRedisKeys ==
    [pr |-> [s \in StrIds |-> {}], pauses |-> {}, metadata |-> {}, stack |-> {}]

\* The events clean_events may delete in the current state.
V3EventCandidates == {e \in OldEvents : e \notin V3ReferencedEventIds}

\* Databases that vary the events and what references them, cleaned by v3 or
\* by v2; no run has Redis state.
InitEvents ==
    /\ prog \in {"v3", "v2"}
    /\ db_type \in {"postgresql", "sqlite"}
    /\ batch_size \in BatchSizes
    /\ dry_run = FALSE
    /\ \E ev \in [EventIds -> {NULL} \cup Times] :
          /\ events = [e \in {x \in EventIds : ev[x] # NULL} |-> ev[e]]
          /\ \E p \in [RunIds -> EventRunProfiles] :
                /\ \A r \in RunIds : EventRunProfileOk(p[r], ev)
                /\ function_runs = [r \in {x \in RunIds : p[x].present} |->
                                      [run_started_at |-> p[r].started,
                                       event_id |-> p[r].event_id,
                                       original_run_id |-> NULL]]
                /\ function_finishes =
                       [r \in {x \in RunIds : p[x].present /\ p[x].fin # NULL} |-> p[r].fin]
    /\ history \in HistoryChoices
    /\ redis = NoRedisKeys
    /\ event_batches = {}
    /\ trace_runs = <<>>
    /\ traces = {}
    /\ pc = IF prog = "v3" THEN "connect" ELSE "function_data"
    /\ needs_more = IF prog = "v3" THEN V3NeedsMoreInit ELSE V2NeedsMoreInit
    /\ ec = EcInit
    /\ last = LastNone
    /\ env = EnvNone
    /\ main = MainNone
    /\ inv = InvInit
    /\ retry = RetryInit
    /\ hist = HistInit([l \in Lanes |->
                 CASE l = "function_data" ->
                        Cardinality(IF prog = "v3" THEN V3Candidates ELSE V2Candidates)
                   [] l = "events" -> Cardinality(V3EventCandidates)
                   [] OTHER -> 0])

SpecEvents == InitEvents /\ [][NextV3 \/ NextV2]_vars

\* One run of a database that varies every lane: run r was triggered by
\* event r.  A run is finished or unfinished and of any age.
LaneRunProfiles ==
    {[present |-> FALSE, started |-> NULL, fin |-> NULL]}
    \cup UNION {{[present |-> TRUE, started |-> t, fin |-> f] : f \in {NULL, t}} : t \in Times}

LaneEventId(r) == IF r \in EventIds THEN r ELSE NULL

\* history and event_batches with at most one row each and no traces, or
\* no such rows and k trace runs that ended long ago, with one trace each.
LaneSideTables ==
    {[history |-> h, event_batches |-> b, trace_runs |-> <<>>, traces |-> {}] :
        h \in {{}} \cup {{[id |-> 1, run_id |-> 1, event_id |-> e, created_at |-> 1]} :
                           e \in EventIds},
        b \in {{}} \cup {{[id |-> 1, event_ids |-> <<e>>, created_at |-> t]} :
                           e \in EventIds, t \in {1, Now - 1}}}
    \cup {[history |-> {}, event_batches |-> {},
           trace_runs |-> [r \in 1..k |-> 1],
           traces |-> {[id |-> r, run_id |-> r] : r \in 1..k}] : k \in 1..MaxTraceRuns}

\* The tables of a database that varies every lane.
LaneTables ==
    /\ \E ev \in [EventIds -> {NULL, 1, Now - 1}] :
          /\ events = [e \in {x \in EventIds : ev[x] # NULL} |-> ev[e]]
          /\ \E p \in [RunIds -> LaneRunProfiles] :
                /\ \A r \in RunIds :
                      p[r].present /\ LaneEventId(r) # NULL /\ ev[LaneEventId(r)] # NULL
                          => p[r].started >= ev[LaneEventId(r)]
                /\ function_runs = [r \in {x \in RunIds : p[x].present} |->
                                      [run_started_at |-> p[r].started,
                                       event_id |-> LaneEventId(r),
                                       original_run_id |-> NULL]]
                /\ function_finishes =
                       [r \in {x \in RunIds : p[x].present /\ p[x].fin # NULL} |-> p[r].fin]
    /\ \E side \in LaneSideTables :
          /\ history = side.history
          /\ event_batches = side.event_batches
          /\ trace_runs = side.trace_runs
          /\ traces = side.traces
    /\ redis = NoRedisKeys

SqliteTasksStateInit == [function_data |-> TRUE, events |-> TRUE, trace_data |-> TRUE]

InitSqlite ==
    /\ prog = "sqlite"
    /\ db_type = "sqlite"
    /\ batch_size \in BatchSizes
    /\ dry_run = FALSE
    /\ LaneTables
    /\ pc = "function_data"
    /\ needs_more = SqliteTasksStateInit
    /\ ec = EcInit
    /\ last = LastNone
    /\ env = EnvNone
    /\ main = MainNone
    /\ inv = InvInit
    /\ retry = RetryInit
    /\ hist = HistInit([l \in Lanes |-> 0])

\* EventCleaner.full_cleanup, in dry-run mode or deleting; when deleting, the
\* server either executes DELETE ... ORDER BY ... LIMIT or rejects it, as
\* PostgreSQL does; event_batches may lack every timestamp column looked for
\* (examined on a server that executes the statements).
InitEc ==
    /\ prog = "ec"
    /\ db_type = "postgresql"
    /\ batch_size \in BatchSizes
    /\ dry_run \in BOOLEAN
    /\ LaneTables
    /\ pc = "function_runs"
    /\ needs_more = SqliteTasksStateInit
    /\ \E ok \in BOOLEAN, ts \in BOOLEAN :
          /\ dry_run => ~ok
          /\ ~ts => ok
          /\ ec = [EcInit EXCEPT !.delete_limit_ok = ok, !.ts_column = ts]
    /\ last = LastNone
    /\ env = EnvNone
    /\ main = MainNone
    /\ inv = InvInit
    /\ retry = RetryInit
    /\ hist = HistInit([l \in Lanes |-> 0])

SpecLanes == (InitSqlite \/ InitEc) /\ [][NextSqlite \/ NextEc]_vars

-----------------------------------------------------------------------------
(* Two invocations of a script against the same database *)

RECURSIVE SumSeq(_)
SumSeq(q) == IF q = <<>> THEN 0 ELSE Head(q) + SumSeq(Tail(q))

\* What each lane of the running invocation has counted so far
\* (total_stats / total_processed / total_deleted or len(processed_ids)).
LaneTotals == [l \in Lanes |-> SumSeq(hist.counts[l])]

\* Where each script starts, and the lane flags it starts with.
StartPc(p) ==
    CASE p = "v3" -> "connect"
      [] p = "ec" -> "function_runs"
      [] OTHER -> "function_data"

NeedsMoreStart(p) ==
    CASE p = "v3" -> V3NeedsMoreInit
      [] p = "v2" -> V2NeedsMoreInit
      [] OTHER -> SqliteTasksStateInit

\* The script has ended with every lane exhausted and is started again, with
\* the same cutoffs and with nothing written in between.  An invocation in
\* dry-run mode is followed by one that deletes; for EventCleaner the server
\* then executes or rejects DELETE ... ORDER BY ... LIMIT.
Reinvoke ==
    /\ pc = "done"
    /\ inv.number = 1
    /\ inv' = [number |-> 2, prev |-> LaneTotals, prev_dry |-> dry_run]
    /\ dry_run' = FALSE
    /\ pc' = StartPc(prog)
    /\ needs_more' = NeedsMoreStart(prog)
    /\ hist' = HistInit([l \in Lanes |-> 0])
    /\ last' = LastNone
    /\ IF prog = "ec"
       THEN \E ok \in BOOLEAN :
               ec' = [ec EXCEPT !.delete_limit_ok = ok, !.processed_ids = {}]
       ELSE UNCHANGED ec
    /\ UNCHANGED <<prog, db_type, batch_size, db, redis, env, retry, main>>

\* One run of the database: absent, finished long ago, or started long ago
\* and never finished; run r was triggered by event r.
InvRunProfiles ==
    {[present |-> FALSE, started |-> NULL, fin |-> NULL],
     [present |-> TRUE, started |-> 1, fin |-> 1],
     [present |-> TRUE, started |-> 1, fin |-> NULL]}

\* Old events, runs, at most one history row (a recent one of the first run
\* id), at most one old trace run, and possibly the metadata key of the last
\* run id.
InvocationTables ==
    /\ \E ev \in [EventIds -> {NULL, 1}] :
          events = [e \in {x \in EventIds : ev[x] # NULL} |-> ev[e]]
    /\ \E p \in [RunIds -> InvRunProfiles] :
          /\ function_runs = [r \in {x \in RunIds : p[x].present} |->
                                [run_started_at |-> p[r].started,
                                 event_id |-> LaneEventId(r),
                                 original_run_id |-> NULL]]
          /\ function_finishes =
                 [r \in {x \in RunIds : p[x].present /\ p[x].fin # NULL} |-> p[r].fin]
    /\ history \in {{}} \cup {{[id |-> 1, run_id |-> 1, event_id |-> e,
                                  created_at |-> Now - 1]} : e \in EventIds}
    /\ event_batches = {}
    /\ \E k \in 0..1 :
          /\ trace_runs = [r \in 1..k |-> 1]
          /\ traces = {[id |-> r, run_id |-> r] : r \in 1..k}
    /\ redis \in IF prog = "v3"
                 THEN {NoRedisKeys,
                       [NoRedisKeys EXCEPT !.metadata = {DecodeFromBytea(MaxRuns)}]}
                 ELSE {NoRedisKeys}

InitInvocations ==
    /\ prog \in {"v3", "v2", "sqlite", "ec"}
    /\ db_type = IF prog = "sqlite" THEN "sqlite" ELSE "postgresql"
    /\ batch_size \in BatchSizes
    /\ dry_run \in IF prog = "sqlite" THEN {FALSE} ELSE BOOLEAN
    /\ InvocationTables
    /\ pc = StartPc(prog)
    /\ needs_more = NeedsMoreStart(prog)
    /\ ec = [EcInit EXCEPT !.delete_limit_ok = ~dry_run]
    /\ last = LastNone
    /\ env = EnvNone
    /\ main = MainNone
    /\ inv = InvInit
    /\ retry = RetryInit
    /\ hist = HistInit([l \in Lanes |-> 0])

SpecInvocations ==
    InitInvocations /\ [][NextV3 \/ NextV2 \/ NextSqlite \/ NextEc \/ Reinvoke]_vars

\* Databases that vary the run family and its Redis keys, cleaned by v3 on
\* either database type; the other tables are empty.
InitOrphans ==
    /\ prog = "v3"
    /\ db_type \in {"postgresql", "sqlite"}
    /\ batch_size \in BatchSizes
    /\ dry_run = FALSE
    /\ \E p \in [RunIds -> AllRunProfiles] :
          /\ \A r \in RunIds : IF p[r].orig = NULL THEN TRUE ELSE p[r].orig < r
          /\ \A r \in RunIds : RunProfileOk(p[r]) /\ p[r] \in RunProfiles(r)
          /\ OriginalPresent(p)
          /\ RunTablesFrom(p)
    /\ events = <<>>
    /\ history = {}
    /\ event_batches = {}
    /\ trace_runs = <<>>
    /\ traces = {}
    /\ pc = "connect"
    /\ needs_more = V3NeedsMoreInit
    /\ ec = EcInit
    /\ last = LastNone
    /\ env = EnvNone
    /\ main = MainNone
    /\ inv = InvInit
    /\ retry = RetryInit
    /\ hist = HistInit([l \in Lanes |->
                 IF l = "function_data" THEN Cardinality(V3Candidates) ELSE 0])

SpecOrphans == InitOrphans /\ [][NextV3]_vars

-----------------------------------------------------------------------------
(* Properties of the run-family lane of v3 *)

\* C1: a run with no function_finishes row that has a Redis liveness key
\* (pause-run, metadata or stack key) before a step of the v3 cleaner is
\* still in function_runs after the step, whatever its age.
C1_LiveIncompleteRunKept ==
    [][\A r \in Runs :
          (r \notin Finishes /\ HasLivenessKey(r)) => r \in DOMAIN function_runs']_vars

\* A clean_function_data cycle has skipped an unfinished run older than the
\* extended cutoff because of its liveness key.
C1_Witness ==
    /\ last.op = "clean_function_data"
    /\ \E r \in last.skipped :
          /\ r \in Runs /\ r \notin Finishes
          /\ function_runs[r].run_started_at < double_cutoff_date
          /\ HasLivenessKey(r)
          /\ r \notin last.raised

\* C2: a run whose Redis liveness check raised is left out of the batch and
\* stays in function_runs; when the Redis ping of connect() fails, no step of
\* the run changes any table.
C2_RedisErrorFailsClosed ==
    [][/\ (pc = "function_data" /\ needs_more.function_data) =>
             \A r \in last'.raised :
                 r \notin last'.run_ids /\ r \in DOMAIN function_runs'
       /\ (pc = "failed" \/ pc' = "failed") => UNCHANGED db]_vars

\* A cycle has kept an unfinished run with no Redis state at all, older than
\* the extended cutoff, only because a Redis call raised while checking it.
C2_Witness ==
    /\ last.op = "clean_function_data"
    /\ \E r \in last.raised :
          /\ r \in Runs /\ r \notin Finishes
          /\ function_runs[r].run_started_at < double_cutoff_date
          /\ ~HasLivenessKey(r)

\* C4: in v3 and v2, a run with no function_finishes row whose run_started_at
\* is not older than the extended cutoff is still in function_runs after any
\* step, also when it is older than the standard cutoff.
C4_YoungIncompleteRunKept ==
    [][\A r \in Runs :
          (r \notin Finishes /\ function_runs[r].run_started_at >= double_cutoff_date)
              => r \in DOMAIN function_runs']_vars

\* A clean_function_data cycle removed some run and left an unfinished run
\* that started between the two cutoffs.
C4_Witness ==
    /\ last.op = "clean_function_data"
    /\ last.del_runs # {}
    /\ \E r \in Runs :
          /\ r \notin Finishes
          /\ function_runs[r].run_started_at >= double_cutoff_date
          /\ function_runs[r].run_started_at < cutoff_date

\* A child of r (original_run_id = r) whose finish was created at or after
\* the standard cutoff.
HasChildFinishedWithinRetention(r) ==
    \E c \in Runs :
        /\ function_runs[c].original_run_id = r
        /\ c \in Finishes
        /\ function_finishes[c] >= cutoff_date

\* C5: no step removes a run R from function_runs while some run C with
\* original_run_id = R has a finish created at or after the standard cutoff.
C5_ParentOfRecentChildKept ==
    [][\A r \in Runs :
          HasChildFinishedWithinRetention(r) => r \in DOMAIN function_runs']_vars

\* C9: a run-family lane that starts with fewer candidate ids than batch_size
\* executes exactly one select+delete cycle and is then exhausted.
C9_OneCycleWhenFewCandidates ==
    hist.n0["function_data"] < batch_size => hist.cycles["function_data"] <= 1

-----------------------------------------------------------------------------
(* Properties of the events lane of v3 and v2 *)

\* C3: no step deletes an event while some existing function_runs row has
\* event_id equal to the event's internal_id, whatever the age of that run.
C3_EventOfExistingRunKept ==
    [][\A e \in Events :
          (\E r \in Runs : function_runs[r].event_id = e) => e \in DOMAIN events']_vars

\* C8: when the events lane of v3 or v2 becomes exhausted, no event is left
\* that is older than the cutoff and absent from the referenced-event set.
C8_ExhaustedEventsLaneLeftNothing ==
    [][(needs_more.events /\ ~needs_more'.events) => V3EventCandidates' = {}]_vars

-----------------------------------------------------------------------------
(* Properties of cleanupv2-sqlite and of EventCleaner *)

\* position(encode(internal_id) in encode(event_ids)) for a stored batch row
BatchContains(eb, e) == \E i \in DOMAIN eb.event_ids : eb.event_ids[i] = e

\* C6: no step deletes an event while a history row has event_id equal to
\* its internal_id or an event_batches row contains its internal_id.
C6_EventOfHistoryOrBatchKept ==
    [][\A e \in Events :
          ((\E h \in history : h.event_id = e)
           \/ (\E eb \in event_batches : BatchContains(eb, e)))
              => e \in DOMAIN events']_vars

\* C7: cleanup_function_runs removes a function_runs row only if the run has
\* a finish older than the cutoff, or has no finish, started before the
\* extended cutoff and has no liveness key.
C7_OnlyEligibleRunsDeleted ==
    [][prog = "ec" =>
          \A r \in Runs :
             r \notin DOMAIN function_runs' =>
                \/ r \in Finishes /\ function_finishes[r] < cutoff_date
                \/ /\ r \notin Finishes
                   /\ function_runs[r].run_started_at < double_cutoff_date
                   /\ ~HasLivenessKey(r)]_vars

\* The key of needs_more / tasks_state that holds the state of lane l.
LaneKey(l) == IF l = "traces" THEN "trace_data" ELSE l

\* Lane l has run and its loop is over.
LaneExhausted(l) ==
    /\ hist.cycles[l] > 0
    /\ IF prog = "sqlite" THEN ~needs_more[LaneKey(l)]
       ELSE CASE l = "function_runs" -> pc # "function_runs"
              [] l = "event_batches" -> pc \notin {"function_runs", "event_batches"}
              [] OTHER -> pc = "done"

\* The cycles of lane l so far are the first cycles of B, ..., B, N mod B,
\* N being the rows eligible when the lane started and B batch_size, and the
\* lane is over exactly when all floor(N/B)+1 of them have run.
LaneCountsExact(l) ==
    hist.cycles[l] > 0 =>
        LET N == hist.n0[l]
            B == batch_size
            k == hist.cycles[l]
        IN  /\ k <= (N \div B) + 1
            /\ \A i \in 1..k : hist.counts[l][i] = IF i <= N \div B THEN B ELSE N % B
            /\ LaneExhausted(l) <=> k = (N \div B) + 1

\* Every cycle of lane l but the latest returned B rows, and the lane is over
\* exactly when the latest returned fewer.
LaneStopsAtFirstShortBatch(l) ==
    hist.cycles[l] > 0 =>
        LET k == hist.cycles[l] IN
            /\ \A i \in 1..(k - 1) : hist.counts[l][i] = batch_size
            /\ LaneExhausted(l) <=> hist.counts[l][k] < batch_size

EcLanes == {"function_runs", "event_batches", "events"}
SqliteLanes == {"function_data", "events", "traces"}

\* C10 as stated: without errors, every EventCleaner lane and every
\* cleanupv2-sqlite lane runs exactly floor(N/B)+1 cycles with counts
\* B, ..., B, N mod B and is exhausted right after the first short batch.
C10_LaneCycleCounts ==
    /\ (prog = "ec" /\ ~ec.errors) => \A l \in EcLanes : LaneCountsExact(l)
    /\ prog = "sqlite" => \A l \in SqliteLanes : LaneCountsExact(l)

\* C10 amended: the exact cycle counts hold for the EventCleaner lanes and for
\* the function_data and trace lanes of cleanupv2-sqlite; the events lane of
\* cleanupv2-sqlite, which alternates with the function_data lane that frees
\* events, only stops right after its first batch shorter than B.
C10_LaneCycleCountsAmended ==
    /\ (prog = "ec" /\ ~ec.errors) => \A l \in EcLanes : LaneCountsExact(l)
    /\ prog = "sqlite" =>
          /\ \A l \in SqliteLanes \ {"events"} : LaneCountsExact(l)
          /\ \A l \in SqliteLanes : LaneStopsAtFirstShortBatch(l)

\* A lane that started with at least B eligible rows has run all of its
\* floor(N/B)+1 cycles and is exhausted.
C10_Witness ==
    \E l \in Lanes :
        /\ (prog = "ec" /\ ~ec.errors /\ l \in EcLanes)
           \/ (prog = "sqlite" /\ l \in SqliteLanes \ {"events"})
        /\ hist.n0[l] >= batch_size
        /\ hist.n0[l] % batch_size # 0
        /\ hist.cycles[l] = (hist.n0[l] \div batch_size) + 1
        /\ LaneExhausted(l)

-----------------------------------------------------------------------------
(* Failing statements and a concurrent cleaner *)

\* The first run id has up to MaxRowsPerRun history rows and the first trace
\* run up to MaxRowsPerRun traces; every row is older than the cutoff.
FaultTables ==
    /\ \E ev \in [EventIds -> {NULL, 1}] :
          events = [e \in {x \in EventIds : ev[x] # NULL} |-> ev[e]]
    /\ \E p \in [RunIds -> InvRunProfiles] :
          /\ function_runs = [r \in {x \in RunIds : p[x].present} |->
                                [run_started_at |-> p[r].started,
                                 event_id |-> LaneEventId(r),
                                 original_run_id |-> NULL]]
          /\ function_finishes =
                 [r \in {x \in RunIds : p[x].present /\ p[x].fin # NULL} |-> p[r].fin]
    /\ \E k \in 0..MaxRowsPerRun :
          history = {[id |-> i, run_id |-> 1, event_id |-> NULL, created_at |-> 1] :
                        i \in 1..k}
    /\ event_batches = {}
    /\ \E n \in 0..1, k \in 0..MaxRowsPerRun :
          /\ trace_runs = [r \in 1..n |-> 1]
          /\ traces = {[id |-> i, run_id |-> 1] : i \in 1..(n * k)}
    /\ redis = NoRedisKeys

\* RedisAwareInngestCleaner on a database whose statements can raise, and
\* cleanupv2-sqlite next to another cleanup process.
InitFaults ==
    /\ prog \in {"v3", "sqlite"}
    /\ db_type = IF prog = "sqlite" THEN "sqlite" ELSE "postgresql"
    /\ batch_size \in BatchSizes
    /\ dry_run = FALSE
    /\ FaultTables
    /\ pc = StartPc(prog)
    /\ needs_more = NeedsMoreStart(prog)
    /\ ec = EcInit
    /\ last = LastNone
    /\ env = [EnvNone EXCEPT !.db_error = (prog = "v3"),
                              !.concurrent = (prog = "sqlite")]
    /\ main = MainNone
    /\ inv = InvInit
    /\ retry = RetryInit
    /\ hist = HistInit([l \in Lanes |-> 0])

SpecFaults == InitFaults /\ [][NextV3 \/ NextSqlite]_vars

\* An EventCleaner with any max_retries, connected, before any database
\* operation; the tables play no part.
InitRetry ==
    /\ prog = "ec"
    /\ db_type = "postgresql"
    /\ batch_size = 1
    /\ dry_run = FALSE
    /\ events = <<>>
    /\ function_runs = <<>>
    /\ function_finishes = <<>>
    /\ history = {}
    /\ event_batches = {}
    /\ trace_runs = <<>>
    /\ traces = {}
    /\ redis = NoRedisKeys
    /\ pc = "setup"
    /\ needs_more = SqliteTasksStateInit
    /\ ec = EcInit
    /\ last = LastNone
    /\ hist = HistInit([l \in Lanes |-> 0])
    /\ env = EnvNone
    /\ main = MainNone
    /\ inv = InvInit
    /\ \E n \in 1..MaxRetries : retry = [RetryInit EXCEPT !.max_retries = n]

SpecRetry == InitRetry /\ [][NextRetry]_vars

-----------------------------------------------------------------------------
(* Properties of repeated invocations *)

(* C11: idempotence of the interleaved orchestrators.  When run_cleanup of
   RedisAwareInngestCleaner or main of cleanupv2-sqlite has ended with every
   lane exhausted and is started again with the same cutoffs and no data
   written in between, the second invocation deletes zero rows in every lane:
   every cycle count of the second invocation is zero. *)
C11_SecondRunDeletesNothing ==
    (prog \in {"v3", "sqlite"} /\ inv.number = 2 /\ ~inv.prev_dry)
        => \A l \in Lanes : LaneTotals[l] = 0

(* C12: dry-run deletes nothing.  While dry_run is set, no step of
   RedisAwareInngestCleaner, ImprovedInngestCleaner or EventCleaner removes a
   row from events, function_runs, function_finishes, history, event_batches,
   traces or trace_runs, and clean_orphaned_redis_state removes no Redis key. *)
C12_DryRunDeletesNothing ==
    [][(dry_run /\ prog \in {"v3", "v2", "ec"}) => UNCHANGED <<db, redis>>]_vars

\* A dry-run invocation has ended although events, runs and orphaned Redis
\* keys were there to be cleaned.
C12_Witness ==
    /\ dry_run
    /\ prog = "v3"
    /\ pc = "done"
    /\ hist.cycles["events"] > 0
    /\ V3EventCandidates # {}
    /\ V3Candidates # {}
    /\ V3OrphanedRuns # {}

(* C13: dry-run counts equal the counts deleted.  When a dry-run invocation
   of EventCleaner.full_cleanup or of the Redis-aware cleaner is followed, on
   the same snapshot and with the same configuration, by an invocation that
   deletes and that meets no error, every lane of the second invocation
   deletes as many rows as the dry-run invocation reported for it. *)
C13_DryRunCountsMatch ==
    (prog \in {"ec", "v3"} /\ inv.number = 2 /\ inv.prev_dry /\ pc = "done" /\ ~ec.errors)
        => \A l \in Lanes : LaneTotals[l] = inv.prev[l]

-----------------------------------------------------------------------------
(* Properties of a batch *)

(* C14: a failed batch counts nothing.  When a statement of a batch of
   clean_function_data, clean_events or clean_traces of RedisAwareInngestCleaner
   raises, no row of the batch is removed, the count reported for the batch
   (added to the totals and used by the exhaustion test) is zero, and the
   error reaches the caller: run_cleanup does not go on to the next lane. *)
C14_FailedBatchCountsNothing ==
    [][(prog = "v3" /\ last'.failed /\ last' # last)
          => (UNCHANGED db /\ last'.count = 0 /\ pc' = "failed")]_vars

(* C15: the count of a cycle is what the cycle removed.  The count a
   cleanup_function_data cycle reports equals the number of run families the
   cycle itself removed, also when another cleanup process has removed some of
   the selected run ids between the select and the delete. *)
C15_CountIsRowsRemoved ==
    last.op = "cleanup_function_data" => last.count = Cardinality(last.del_finishes)

\* Statement a comes before statement b in the batch q.
DeletedBefore(a, b, q) ==
    \E i, j \in 1..Len(q) : i < j /\ q[i] = a /\ q[j] = b

(* C16: children before parents.  In a batch that removes a run family the
   DELETE on history and the DELETE on function_finishes come before the
   DELETE on function_runs, and in a batch that removes a trace family the
   DELETE on traces comes before the DELETE on trace_runs. *)
C16_ChildrenDeletedBeforeParents ==
    /\ last.del_runs # {} =>
          /\ DeletedBefore("history", "function_runs", last.order)
          /\ DeletedBefore("function_finishes", "function_runs", last.order)
    /\ (last.op \in {"clean_traces", "cleanup_trace_data"} /\ last.run_ids # {}) =>
          DeletedBefore("traces", "trace_runs", last.order)

(* C17: no single DELETE statement of a cycle removes more than batch_size
   rows, be it from events, function_runs, function_finishes, history or
   traces. *)
C17_DeleteBoundedByBatchSize ==
    /\ Cardinality(last.del_events) <= batch_size
    /\ Cardinality(last.del_runs) <= batch_size
    /\ Cardinality(last.del_finishes) <= batch_size
    /\ Cardinality(last.del_history) <= batch_size
    /\ Cardinality(last.del_traces) <= batch_size

-----------------------------------------------------------------------------
(* Properties of db_retry *)

(* C18: bounded retries.  The body of a db_retry block is run at most
   max_retries times, and a block whose body failed with a retryable error
   and whose reconnects succeeded ends, after max_retries attempts, by
   raising the last database error to the caller. *)
C18_RetriesBoundedLastErrorRaised ==
    /\ retry.attempts <= retry.max_retries
    /\ (/\ retry.pc = "idle"
        /\ retry.last_error \in {"OperationalError", "InterfaceError"}
        /\ retry.outcome \notin {"success", "ConnectError"})
           => (retry.outcome = retry.last_error /\ retry.attempts = retry.max_retries)

(* C19: fatal errors are not retried.  When the body of a db_retry block
   raises a constraint violation, a type error or a programming error, the
   block ends at once by raising that error: no sleep, no reconnect and no
   further attempt follow. *)
C19_FatalErrorsNotRetried ==
    [][(/\ retry.pc = "body"
        /\ retry'.last_error \in {"IntegrityError", "DataError", "TypeError",
                                   "ProgrammingError"})
          => (/\ retry'.pc = "idle"
              /\ retry'.outcome = retry'.last_error
              /\ retry'.slept = retry.slept)]_vars

(* C20: db_is_healthy goes from True to False only in a step in which the
   body has failed for the max_retries-th time, never on an earlier failure
   or on a failed reconnect inside the retry cycle, and it is True after every
   database operation that succeeds. *)
C20_HealthFlipsOnlyWhenExhausted ==
    [][/\ (retry.db_is_healthy /\ ~retry'.db_is_healthy)
            => (retry.pc = "body" /\ retry'.retries >= retry.max_retries)
       /\ retry'.outcome = "success" => retry'.db_is_healthy]_vars

-----------------------------------------------------------------------------
(* Orphaned Redis state, ordering of the batches, the main loop *)

\* cleanup_events_v1.py started from its command line with --full-cleanup:
\* main() is at the head of its loop, the database holds old runs and old or
\* young events, and the server executes or rejects DELETE ... ORDER BY ...
\* LIMIT.
InitMain ==
    /\ prog = "ec"
    /\ db_type = "postgresql"
    /\ batch_size \in BatchSizes
    /\ dry_run \in BOOLEAN
    /\ \E k \in 0..MaxRuns :
          function_runs = [r \in 1..k |-> [run_started_at |-> 1, event_id |-> NULL,
                                           original_run_id |-> NULL]]
    /\ \E ev \in [EventIds -> {1, Now - 1}] : events = ev
    /\ function_finishes = <<>>
    /\ history = {}
    /\ event_batches = {}
    /\ trace_runs = <<>>
    /\ traces = {}
    /\ redis = NoRedisKeys
    /\ pc = "done"
    /\ needs_more = SqliteTasksStateInit
    /\ \E ok \in BOOLEAN :
          /\ dry_run => ~ok
          /\ ec = [EcInit EXCEPT !.delete_limit_ok = ok]
    /\ last = LastNone
    /\ env = EnvNone
    /\ \E ri \in RunIntervals, is \in BOOLEAN :
          main = [MainNone EXCEPT !.pc = "loop", !.run_interval = ri,
                                  !.inspect_schema = is]
    /\ inv = InvInit
    /\ retry = RetryInit
    /\ hist = HistInit([l \in Lanes |-> 0])

SpecMain == InitMain /\ [][NextMain \/ NextMainEnv]_vars

\* The process keeps running: a step of the program that can be taken is
\* taken, and every sleep ends.  Nothing is assumed of the signals or of
\* the database.
SpecMainFair == SpecMain /\ WF_vars(NextMain)

\* C21: a step of the v3 cleaner removes a Redis key of run id r (its
\* pause-run, metadata or stack key) only if function_runs has no row with
\* run_id r.
C21_OnlyOrphanKeysDeleted ==
    [][prog = "v3" =>
         \A r \in RunIds :
            LET s == DecodeFromBytea(r) IN
            (\/ redis.pr[s] # {} /\ redis'.pr[s] = {}
             \/ s \in redis.metadata \ redis'.metadata
             \/ s \in redis.stack \ redis'.stack) => r \notin Runs]_vars

(* C22: within one run, the records a lane handles in a cycle are no older
   than any record the lane handled in an earlier cycle of the run: the newest
   timestamp handled by the lane never decreases from one cycle to the next. *)
C22_OldestFirstAcrossCycles ==
    [][(prog \in {"v3", "sqlite", "ec"}) =>
          (\A l \in Lanes :
              hist'.cycles[l] > hist.cycles[l] =>
                 (\A t \in last'.ts : t >= hist.max_ts[l]))]_vars

(* C23: in main() of cleanup_events_v1.py, a pass of the loop body that is
   not the first one starts only when run_interval > 0 and the remainder of
   the interval has been slept.  (With should_exit set no pass starts.) *)
C23_OnePassOrSleepBetweenPasses ==
    [][main'.iterations > main.iterations =>
          (main.iterations = 0 \/ (main.run_interval > 0 /\ main.slept))]_vars

(* C24: when cleanup_events_v1.py runs with run_interval = 0 and the
   EventCleaner constructor could not connect to the database, the process
   ends with exit code 1. *)
C24_StartupFailureExitsWithOne ==
    (main.pc = "exited" /\ main.run_interval = 0 /\ main.connect_failed)
        => main.exit_code = 1

(* C25: once should_exit is set, no step of cleanup_events_v1.py starts a
   batch (no table changes, no lane counts a further pass), full_cleanup
   moves to no later phase, main starts no new pass of its loop, and the
   flag stays set; what earlier batches deleted stays deleted. *)
C25_NothingStartsAfterCancellation ==
    [][main.should_exit =>
          /\ UNCHANGED db
          /\ hist'.cycles = hist.cycles
          /\ pc' \in {pc, "done"}
          /\ main'.iterations = main.iterations
          /\ main'.should_exit]_vars

\* The process has ended after a cancellation that came between two batches
\* of the function_runs lane: one batch was deleted, old runs remain.
C25_Witness ==
    /\ main.pc = "exited"
    /\ main.should_exit
    /\ ~dry_run
    /\ hist.cycles["function_runs"] >= 1
    /\ last.del_runs # {}
    /\ EcEligibleRuns # {}

(* C26: once should_exit is set, the cleanup_events_v1.py process, if it
   keeps running, ends with exit code 0, wherever it was. *)
C26_CancellationEndsTheProcess ==
    main.should_exit ~> (main.pc = "exited" /\ main.exit_code = 0)

\* The process has ended with exit code 0 after a cancellation that came
\* while the passes of a lane loop kept failing.
C26_Witness ==
    /\ main.pc = "exited"
    /\ main.exit_code = 0
    /\ main.should_exit
    /\ env.db_down
    /\ last.failed
    /\ main.run_interval > 0

(* C27: when the database has stopped answering during a run of
   cleanup_events_v1.py and no cancellation comes, the lane loops still end:
   the run of full_cleanup is eventually over. *)
C27_FailingLaneEnds ==
    (main.pc = "run" /\ env.db_down) ~> (main.pc # "run" \/ main.should_exit)

(* C28: in run_cleanup of RedisAwareInngestCleaner, a cycle of a lane that
   fails, while selecting its candidates or while deleting them, does not end
   the run: the orchestrator goes on to the next lane. *)
C28_LaneErrorDoesNotEndRun ==
    [][(prog = "v3" /\ last'.failed /\ last' # last) => pc' # "failed"]_vars

\* The runs without a finish, started before the extended cutoff, that have
\* no Redis state: what the incomplete-run query and the Redis filter
\* together are written to find.
V3AbandonedRuns == {r \in V3IncompleteEligible : ~RunSkipped(r, NoFail)}

(* C29: when the function_data lane of RedisAwareInngestCleaner becomes
   exhausted in a cycle in which Redis answered every call and no statement
   failed, no abandoned run (no finish, older than the extended cutoff, no
   Redis state) is left in function_runs. *)
C29_NoAbandonedRunLeftBehind ==
    [][(/\ prog = "v3"
        /\ needs_more.function_data /\ ~needs_more'.function_data
        /\ last'.raised = {} /\ ~last'.failed)
          => V3AbandonedRuns' = {}]_vars

\* The lane of hist that the flag k of needs_more / tasks_state stands for.
LaneOfFlag(k) == IF k = "trace_data" THEN "traces" ELSE k

(* C30: within one run of run_cleanup or of main of cleanupv2-sqlite.py, a
   lane whose flag is cleared keeps it cleared, and no further cycle is run
   for it: its cycle count stays as it is, and the Redis lane removes no key. *)
C30_ExhaustedLaneStaysExhausted ==
    [][(prog \in {"v3", "sqlite"} /\ inv' = inv) =>
          (\A k \in DOMAIN needs_more :
              ~needs_more[k] =>
                 /\ ~needs_more'[k]
                 /\ IF k = "redis_orphans"
                    THEN UNCHANGED redis
                    ELSE hist'.cycles[LaneOfFlag(k)] = hist.cycles[LaneOfFlag(k)])]_vars

\* The function_data lane was exhausted after its first cycle, and the events
\* lane has run a cycle in a later round.
C30_Witness ==
    /\ prog \in {"v3", "sqlite"}
    /\ ~needs_more.function_data
    /\ hist.cycles["function_data"] = 1
    /\ hist.cycles["events"] = 2
    /\ last.del_events # {}

\* cleanup_events_v1.py with outages of the database that pass.
SpecMainOutage == InitMain /\ [][NextMain \/ NextMainEnv \/ DbComesBack]_vars

\* The phases of full_cleanup that come before phase l.
EcEarlierPhases(l) ==
    CASE l = "event_batches" -> {"function_runs"}
      [] l = "events" -> {"function_runs", "event_batches"}
      [] OTHER -> {}

\* The loop of lane l has run in this call of full_cleanup, and its latest
\* batch returned fewer than batch_size rows.
EcLaneReachedExhaustion(l) ==
    /\ hist.cycles[l] > 0
    /\ hist.counts[l][hist.cycles[l]] < batch_size

(* C31: full_cleanup of EventCleaner goes through its phases in the order
   function_runs, event_batches, events; a phase has a batch executed only
   when the lane of every earlier phase has reached exhaustion (its latest
   batch returned fewer than batch_size rows); and once should_exit is set
   no phase has a further batch executed. *)
C31_PhasesInOrderAfterExhaustion ==
    [][(prog = "ec" /\ pc \in EcLanes) =>
          /\ pc' \in {pc, EcNextPhase, "done"}
          /\ \A l \in EcLanes :
                hist'.cycles[l] > hist.cycles[l] =>
                   /\ ~main.should_exit
                   /\ \A e \in EcEarlierPhases(l) : EcLaneReachedExhaustion(e)]_vars

-----------------------------------------------------------------------------
(* RedisAwareInngestCleaner next to the execution engine *)

\* get_function_runs_to_delete, the first half of a clean_function_data
\* cycle: the two SELECTs and the Redis checks.  The ids it returns are held
\* by the cleaner (last.run_ids) until the DELETEs are issued.
V3SelectRunsToDelete ==
    /\ prog = "v3"
    /\ pc = "function_data"
    /\ IF ~LaneActive("function_data")
       THEN /\ pc' = "events"
            /\ UNCHANGED last
       ELSE \E fails \in [V3IncompleteRuns -> RedisCalls \cup {NoFail}] :
            /\ pc' = "function_data_delete"
            /\ last' = [LastNone EXCEPT
                          !.op = "get_function_runs_to_delete",
                          !.run_ids = V3GetFunctionRunsToDelete(fails),
                          !.skipped = V3IncompleteRuns \ V3GetFunctionRunsToDelete(fails),
                          !.raised = {r \in V3IncompleteRuns :
                                        RedisCheckRaises(DecodeFromBytea(r), fails[r])}]
    /\ UNCHANGED <<config, main, env, inv, retry, db, redis, needs_more, ec, hist>>

\* The second half of the cycle: the three DELETEs on the ids selected, the
\* commit, and the exhaustion test of run_cleanup.
V3DeleteSelectedRuns ==
    /\ prog = "v3"
    /\ pc = "function_data_delete"
    /\ pc' = "events"
    /\ LET run_ids == last.run_ids
           del_history == HistoryOfRuns(run_ids)
           del_finishes == run_ids \cap Finishes
           del_runs == run_ids \cap Runs
           total_cleaned == Cardinality(del_history) + Cardinality(del_finishes)
                            + Cardinality(del_runs)
       IN  /\ history' = history \ del_history
           /\ function_finishes' = DeleteKeys(function_finishes, run_ids)
           /\ function_runs' = DeleteKeys(function_runs, run_ids)
           /\ needs_more' = [needs_more EXCEPT
                               !.function_data = ~(total_cleaned < batch_size)]
           /\ last' = [LastNone EXCEPT
                         !.op = "clean_function_data",
                         !.run_ids = run_ids,
                         !.skipped = last.skipped,
                         !.raised = last.raised,
                         !.del_runs = del_runs,
                         !.del_finishes = del_finishes,
                         !.del_history = {h.id : h \in del_history},
                         !.count = total_cleaned,
                         !.order = IF run_ids = {} THEN <<>>
                                   ELSE <<"history", "function_finishes",
                                          "function_runs">>,
                         !.ts = RunTimestamps(run_ids)]
           /\ hist' = HistHandled(HistCycle("function_data", total_cleaned),
                                  "function_data", RunTimestamps(run_ids))
    /\ UNCHANGED <<config, main, env, inv, retry, redis, ec, events, event_batches,
                   trace_runs, traces>>

\* The execution engine takes up a run that has not finished: it writes the
\* run's metadata key.
EngineWritesMetadata ==
    /\ prog = "v3"
    /\ pc \notin {"done", "failed"}
    /\ \E r \in Runs \ Finishes :
          /\ ~MetadataKeyExists(DecodeFromBytea(r))
          /\ redis' = [redis EXCEPT !.metadata = @ \cup {DecodeFromBytea(r)}]
    /\ UNCHANGED <<config, main, env, inv, retry, db, pc, needs_more, ec, last, hist>>

\* Old runs, finished or not, with no Redis state when the cleaner starts;
\* the other tables are empty.
InitEngine ==
    /\ prog = "v3"
    /\ db_type = "postgresql"
    /\ batch_size \in BatchSizes
    /\ dry_run = FALSE
    /\ \E p \in [RunIds -> InvRunProfiles] :
          /\ function_runs = [r \in {x \in RunIds : p[x].present} |->
                                [run_started_at |-> p[r].started, event_id |-> NULL,
                                 original_run_id |-> NULL]]
          /\ function_finishes =
                 [r \in {x \in RunIds : p[x].present /\ p[x].fin # NULL} |-> p[r].fin]
    /\ events = <<>>
    /\ history = {}
    /\ event_batches = {}
    /\ trace_runs = <<>>
    /\ traces = {}
    /\ redis = NoRedisKeys
    /\ pc = "connect"
    /\ needs_more = V3NeedsMoreInit
    /\ ec = EcInit
    /\ last = LastNone
    /\ env = EnvNone
    /\ main = MainNone
    /\ inv = InvInit
    /\ retry = RetryInit
    /\ hist = HistInit([l \in Lanes |-> 0])

SpecEngine ==
    InitEngine /\ [][\/ V3Connect
                     \/ V3SelectRunsToDelete
                     \/ V3DeleteSelectedRuns
                     \/ V3CleanEvents
                     \/ V3CleanTraces
                     \/ V3CleanOrphanedRedis
                     \/ EngineWritesMetadata]_vars

(* C32: no step of RedisAwareInngestCleaner removes a function_runs row of a
   run that has a liveness key in Redis at that moment, also when the key was
   written by the execution engine after the cleaner's Redis check of the run
   and before its DELETE. *)
C32_NoRunDeletedWhileKeyExists ==
    [][prog = "v3" =>
          \A r \in Runs : r \notin DOMAIN function_runs' => ~HasLivenessKey(r)]_vars

-----------------------------------------------------------------------------
(* The run family, orphaned rows, dry-run progress, termination, traces *)

(* C33: a step that removes a function_runs row removes, in the same batch,
   the function_finishes row and the history rows of the same run_id: after
   the step neither table holds a row of a run that the step removed. *)
C33_FinishDeletedWithRun ==
    [][\A r \in Runs :
          r \notin DOMAIN function_runs' =>
             /\ r \notin DOMAIN function_finishes'
             /\ HistoryOfRuns({r})' = {}]_vars

\* get_orphaned_history_ids without its LIMIT: the history rows older than
\* the cutoff whose run_id has no function_runs row.
OrphanedHistory == {h \in history : h.created_at < cutoff_date /\ h.run_id \notin Runs}

(* C34: when run_cleanup of RedisAwareInngestCleaner or of
   ImprovedInngestCleaner has ended with every lane exhausted, no history row
   is left that is older than the cutoff and whose run_id has no
   function_runs row. *)
C34_OrphanedHistoryReclaimed ==
    (prog \in {"v3", "v2"} /\ pc = "done" /\ ~dry_run) => OrphanedHistory = {}

\* One pass of the loop of cleanup() of cleanup_events.py: the candidates are
\* counted (dry run) or deleted, LIMIT batch_size with no ORDER BY; the loop
\* ends on a count of zero only.  The passes followed are capped.
Ec0Cleanup ==
    /\ prog = "ec0"
    /\ pc = "events"
    /\ ~main.should_exit
    /\ hist.cycles["events"] < MaxCycles
    /\ \E rows \in LimitChoices(EcEligibleEvents, batch_size) :
          LET count == Cardinality(rows) IN
          /\ events' = IF dry_run THEN events ELSE DeleteKeys(events, rows)
          /\ pc' = IF count = 0 THEN "done" ELSE pc
          /\ hist' = HistHandled(HistLaneCycle("events", count,
                                               Cardinality(EcEligibleEvents)),
                                 "events", {events[x] : x \in rows})
          /\ last' = [LastNone EXCEPT !.op = "cleanup",
                                      !.del_events = IF dry_run THEN {} ELSE rows,
                                      !.count = count,
                                      !.ts = {events[x] : x \in rows}]
    /\ UNCHANGED <<config, main, env, inv, retry, redis, needs_more, ec,
                   function_runs, function_finishes, history, event_batches,
                   trace_runs, traces>>

\* cleanup() of either EventCleaner, called on its own, in dry-run mode or
\* deleting: events of any age, runs that name the event of their number, at
\* most one event batch.
InitCleanupEvents ==
    /\ prog \in {"ec", "ec0"}
    /\ db_type = "postgresql"
    /\ batch_size \in BatchSizes
    /\ dry_run \in BOOLEAN
    /\ \E ev \in [EventIds -> {NULL, 1, Now - 1}] :
          events = [x \in {y \in EventIds : ev[y] # NULL} |-> ev[x]]
    /\ \E present \in SUBSET RunIds :
          function_runs = [r \in present |->
                             [run_started_at |-> Now - 1, event_id |-> LaneEventId(r),
                              original_run_id |-> NULL]]
    /\ function_finishes = <<>>
    /\ history = {}
    /\ event_batches \in {{}} \cup {{[id |-> 1, event_ids |-> <<x>>, created_at |-> 1]} :
                                      x \in EventIds}
    /\ trace_runs = <<>>
    /\ traces = {}
    /\ redis = NoRedisKeys
    /\ pc = "events"
    /\ needs_more = SqliteTasksStateInit
    /\ ec = [EcInit EXCEPT !.delete_limit_ok = ~dry_run]
    /\ last = LastNone
    /\ env = EnvNone
    /\ main = MainNone
    /\ inv = InvInit
    /\ retry = RetryInit
    /\ hist = HistInit([l \in Lanes |-> 0])

SpecCleanupEvents == InitCleanupEvents /\ [][EcCleanup \/ Ec0Cleanup]_vars

(* C35: in dry-run mode the lane loops of EventCleaner count no candidate
   twice: what a lane has counted so far never exceeds the number of
   candidates the lane started with, and when the loops are over every lane
   that ran has counted exactly that number. *)
C35_DryRunCountsEachCandidateOnce ==
    (prog \in {"ec", "ec0"} /\ dry_run) =>
        \A l \in EcLanes :
            /\ LaneTotals[l] <= hist.n0[l]
            /\ (pc = "done" /\ hist.cycles[l] > 0) => LaneTotals[l] = hist.n0[l]

\* cleanupv2.py started on a database of old events, runs, history and
\* trace runs.
InitPg ==
    /\ prog = "pg"
    /\ db_type = "postgresql"
    /\ batch_size \in BatchSizes
    /\ dry_run = FALSE
    /\ InvocationTables
    /\ pc = "function_data"
    /\ needs_more = SqliteTasksStateInit
    /\ ec = EcInit
    /\ last = LastNone
    /\ env = EnvNone
    /\ main = MainNone
    /\ inv = InvInit
    /\ retry = RetryInit
    /\ hist = HistInit([l \in Lanes |-> 0])

SpecPg == InitPg /\ [][NextSqlite]_vars

(* C36: main() of cleanupv2.py stops only by leaving its loop normally, with
   every lane (function_data, events, trace_data) exhausted: whenever it is
   no longer in a round, it has ended normally and no lane is still active. *)
C36_RunsUntilEveryLaneExhausted ==
    (prog = "pg" /\ pc \notin {"function_data", "events", "trace_data"})
        => (pc = "done" /\ ~AnyNeedsMore(needs_more))

\* clean_function_data and the exhaustion test of run_cleanup on a database
\* that refuses every DELETE on function_runs (the role lacks the privilege,
\* or rows of a table the cleaner does not know refer to the runs): the
\* DELETEs on history and function_finishes set their stats entries, the
\* third DELETE raises, and the except branch rolls back and returns stats.
\* Redis answers every call.  Of the cycles, the first MaxCycles are recorded
\* in hist.
V3CleanFunctionDataDenied ==
    /\ prog = "v3"
    /\ pc = "function_data"
    /\ env.runs_delete_denied
    /\ pc' = "events"
    /\ IF ~LaneActive("function_data")
       THEN UNCHANGED <<needs_more, last, hist>>
       ELSE \E fails \in [V3IncompleteRuns -> {NoFail}] :
            LET run_ids == V3GetFunctionRunsToDelete(fails)
                stats_history == Cardinality(HistoryOfRuns(run_ids))
                stats_function_finishes == Cardinality(run_ids \cap Finishes)
                total_cleaned == stats_history + stats_function_finishes
            IN  /\ needs_more' = [needs_more EXCEPT
                                    !.function_data = ~(total_cleaned < batch_size)]
                /\ last' = [LastNone EXCEPT
                              !.op = "clean_function_data",
                              !.run_ids = run_ids,
                              !.skipped = V3IncompleteRuns \ run_ids,
                              !.count = total_cleaned,
                              !.order = IF run_ids = {} THEN <<>>
                                        ELSE <<"history", "function_finishes",
                                               "function_runs">>,
                              !.failed = run_ids # {}]
                /\ hist' = IF hist.cycles["function_data"] < MaxCycles
                           THEN HistCycle("function_data", total_cleaned)
                           ELSE hist
    /\ UNCHANGED <<config, main, env, inv, retry, db, redis, ec>>

\* RedisAwareInngestCleaner on a database that refuses the DELETEs on
\* function_runs; nothing else fails and nobody else writes.
InitDenied ==
    /\ prog = "v3"
    /\ db_type = "postgresql"
    /\ batch_size \in BatchSizes
    /\ dry_run = FALSE
    /\ InvocationTables
    /\ pc = "connect"
    /\ needs_more = V3NeedsMoreInit
    /\ ec = EcInit
    /\ last = LastNone
    /\ env = [EnvNone EXCEPT !.runs_delete_denied = TRUE]
    /\ main = MainNone
    /\ inv = InvInit
    /\ retry = RetryInit
    /\ hist = HistInit([l \in Lanes |-> 0])

NextDenied ==
    \/ V3Connect
    \/ V3CleanFunctionDataDenied
    \/ V3CleanEvents
    \/ V3CleanTraces
    \/ V3CleanOrphanedRedis

\* run_cleanup keeps running: the step that can be taken is taken.
SpecDeniedFair == InitDenied /\ [][NextDenied]_vars /\ WF_vars(NextDenied)

(* C37: run_cleanup of RedisAwareInngestCleaner terminates when nobody
   inserts rows: it eventually ends, every lane exhausted (or by the error of
   connect), also when selected runs are kept because of Redis state and
   when DELETEs fail and are rolled back. *)
C37_RunCleanupTerminates ==
    <>(pc = "failed" \/ (pc = "done" /\ ~AnyNeedsMore(needs_more)))

\* The database lanes of run_cleanup.
V3DatabaseLanes == {"function_data", "events", "traces"}

\* The test of line 839 passes: clean_orphaned_redis_state is called in this
\* round (connect has set redis_client, or run_cleanup is over).
V3OrphanCleanupCalled ==
    /\ pc = "redis_orphans"
    /\ needs_more.redis_orphans

\* The first round of the loop is at its last step: each database lane has
\* been through one cycle.
V3FirstRound == \A l \in V3DatabaseLanes : hist.cycles[l] = 1

(* C38: in one call of run_cleanup of RedisAwareInngestCleaner,
   clean_orphaned_redis_state is called at most once, and that in the first
   round: Redis keys change only in a step that calls it, the step that calls
   it is the last of the first round, and once its flag is cleared the flag
   stays cleared, however many rounds the database lanes go on for. *)
C38_RedisOrphansCleanedOnce ==
    [][prog = "v3" =>
          /\ (redis' # redis \/ last'.op = "clean_orphaned_redis_state")
                => V3OrphanCleanupCalled
          /\ V3OrphanCleanupCalled => (V3FirstRound /\ ~needs_more'.redis_orphans)
          /\ ~needs_more.redis_orphans => ~needs_more'.redis_orphans]_vars

\* A later round has come to the Redis step and skips it; Redis holds keys,
\* none of them of a run unknown to the database.
C38_Witness ==
    /\ prog = "v3"
    /\ pc = "redis_orphans"
    /\ hist.cycles["function_data"] >= 2
    /\ ~needs_more.redis_orphans
    /\ V3OrphanedRuns = {}
    /\ redis # NoRedisKeys

\* A database that varies the trace runs: each has ended at any time or not
\* at all, and has a trace or none.  Next to them one finished run of the
\* last hour with its event and a history row, and the events of no run.
TraceTables ==
    /\ trace_runs \in [1..MaxTraceRuns -> {NULL} \cup Times]
    /\ traces \in SUBSET {[id |-> r, run_id |-> r] : r \in 1..MaxTraceRuns}
    /\ events = [e \in EventIds |-> Now - 1]
    /\ function_runs = [r \in {1} |-> [run_started_at |-> Now - 1,
                                       event_id |-> LaneEventId(r),
                                       original_run_id |-> NULL]]
    /\ function_finishes = [r \in {1} |-> Now - 1]
    /\ history = {[id |-> 1, run_id |-> 1, event_id |-> 1, created_at |-> Now - 1]}
    /\ event_batches = {}
    /\ redis = NoRedisKeys

\* RedisAwareInngestCleaner, whose statements may fail, or cleanupv2-sqlite.py
\* on such a database.
InitTraces ==
    /\ prog \in {"v3", "sqlite"}
    /\ db_type = IF prog = "sqlite" THEN "sqlite" ELSE "postgresql"
    /\ batch_size \in BatchSizes
    /\ dry_run = FALSE
    /\ TraceTables
    /\ pc = StartPc(prog)
    /\ needs_more = NeedsMoreStart(prog)
    /\ ec = EcInit
    /\ last = LastNone
    /\ env = [EnvNone EXCEPT !.db_error = (prog = "v3")]
    /\ main = MainNone
    /\ inv = InvInit
    /\ retry = RetryInit
    /\ hist = HistInit([l \in Lanes |-> 0])

SpecTraces == InitTraces /\ [][NextV3 \/ NextSqlite]_vars

\* The cleaner is at its trace step.
AtTraceStep ==
    \/ prog = "v3" /\ pc = "traces"
    \/ prog = "sqlite" /\ pc = "trace_data"

(* C39: trace cleanup is by age only.  A step of clean_traces (v3) or of
   cleanup_trace_data (cleanupv2-sqlite.py) deletes no trace_runs row whose
   ended_at is NULL or not older than the cutoff, deletes traces rows only
   of the run ids of the trace_runs rows it selected in that cycle, and
   leaves events, function_runs, function_finishes and history as they
   are. *)
C39_TracesPrunedByAgeOnly ==
    [][AtTraceStep =>
          /\ \A t \in (DOMAIN trace_runs) \ DOMAIN trace_runs' :
                /\ trace_runs[t] # NULL
                /\ trace_runs[t] < cutoff_date
                /\ t \in last'.run_ids
          /\ \A x \in traces \ traces' :
                /\ x.run_id \in last'.run_ids
                /\ x.run_id \in DOMAIN trace_runs
                /\ trace_runs[x.run_id] # NULL
                /\ trace_runs[x.run_id] < cutoff_date
          /\ UNCHANGED <<events, function_runs, function_finishes, history>>]_vars

\* A trace step has deleted an old trace run and its trace, and a trace run
\* that has not ended, one that ended at the cutoff, and their traces are
\* still there, as are the rows of the other tables.
C39_Witness ==
    /\ last.op \in {"clean_traces", "cleanup_trace_data"}
    /\ last.run_ids # {}
    /\ last.del_traces # {}
    /\ last.run_ids \cap DOMAIN trace_runs = {}
    /\ \E t \in DOMAIN trace_runs :
          trace_runs[t] = NULL /\ \E x \in traces : x.run_id = t
    /\ \E t \in DOMAIN trace_runs :
          trace_runs[t] = cutoff_date /\ \E x \in traces : x.run_id = t
    /\ history # {}

====
